---- MODULE Spec2Model ----
(***************************************************************************)
(* Model of server.js: the places cache (memory TTL maps + disk JSON tier  *)
(* in front of a places provider), the directory builder, and the contact  *)
(* form endpoints.                                                         *)
(***************************************************************************)
EXTENDS Integers, Sequences, FiniteSets, TLC

(***************************************************************************)
(* Bounds of the model.                                                    *)
(***************************************************************************)
MaxTicks == 2
MaxRequests == 2
\* companies in data/companies.json
MaxCompanies == 3
\* requests to POST /api/submit
MaxSubmits == 1
\* requests to POST /api/forum-posts, and waits between them
MaxPosts == 5
MaxWaits == 4

(***************************************************************************)
(* Program constants.                                                      *)
(***************************************************************************)
PLACES_CACHE_TTL_MS == 7 * 24 * 60 * 60 * 1000
\* the clock of the model advances in steps of half a TTL
TickMs == PLACES_CACHE_TTL_MS \div 2

VARIABLES
    now,                    \* Date.now()
    ticks,                  \* number of clock advances so far
    config,                 \* environment configuration of the process
    companies,              \* content of data/companies.json
    companiesFile,          \* whether data/companies.json can be read and parsed
    placesCache,            \* placeId -> {value, expiresAt}
    placeIdCache,           \* query -> {value, expiresAt}
    placePhotoCache,        \* "placeId:index" -> {value, expiresAt}
    placeDetailsDiskCache,  \* resident disk-tier object (null until loaded)
    diskFile,               \* content of data/place-details.json
    photoFiles,             \* files present in image/place-photos
    procs,                  \* in-flight asynchronous operations
    last,                   \* the operation that returned in the last step
    started,                \* number of operations started so far
    prefetchRunning,        \* the in-flight flag of prefetchPlacesCache
    templates,              \* the partials read at start-up
    page,                   \* the page sent by the last page route
    db,                     \* the rows of table submissions, in insertion order
    reply,                  \* the response to the last form request
    mirrorCalls,            \* the calls of appendToSheet and appendToFeishu
    forumRateLimits,        \* key -> {count, resetAt, lastAt}
    forumPosts,             \* the rows of table forum_posts, in insertion order
    accepted                \* history: per key, the times at which
                            \* checkForumRateLimit returned ok

placesVars == <<now, ticks, config, companies, companiesFile, placesCache, placeIdCache,
                placePhotoCache, placeDetailsDiskCache, diskFile, photoFiles,
                procs, last, started, prefetchRunning>>
pageVars == <<templates, page>>
forumVars == <<forumRateLimits, forumPosts, accepted>>
formVars == <<db, reply, mirrorCalls, forumVars>>
vars == <<placesVars, pageVars, formVars>>

(***************************************************************************)
(* Values.                                                                 *)
(***************************************************************************)
PlaceIds == {"p1", "p2"}
\* the provider's data for a place comes in two versions, the second one
\* with a photo
Versions == {1, 2}
PhotoIndexes == {0, 1}
Null == [kind |-> "null"]
NoEntry == [value |-> Null, expiresAt |-> 0, present |-> FALSE]
Slots == {1, 2}

\* a photo reference: an absolute URL (SERP-style providers) or an opaque
\* Google photo reference
HttpRef == [http |-> TRUE]
GoogleRef == [http |-> FALSE]

PlaceName(p) == IF p = "p1" THEN "A" ELSE "B"

\* a raw place record as a provider returns it
RawPlace(id, name, ver, refs) ==
    [kind |-> "place", place_id |-> id, name |-> name, ver |-> ver,
     photos |-> refs]

\* companies of the store used by the places operations
PlacesCompanies ==
    << [slug |-> "a", name |-> "A", placeId |-> "p1"],
       [slug |-> "b", name |-> "B", placeId |-> ""] >>

Slugs == {"a", "b", "unknown"}
Queries == {"A", "B", ""}

\* the elements of a set of numbers in increasing order
SortedSeq(S) ==
    [k \in 1..Cardinality(S) |->
        CHOOSE x \in S : Cardinality({y \in S : y < x}) = k - 1]

\* the keys of the entries S, each once, in the order of first insertion
\* (the iteration order of a Map or a Set)
InsertionOrder(keys, S) ==
    LET firsts == {n \in S : \A m \in S : m < n => keys[m] # keys[n]}
        order  == SortedSeq(firsts)
    IN [k \in 1..Len(order) |-> keys[order[k]]]

EmptyMap == [p \in PlaceIds |-> Null]
EmptyCache(keys) == [k \in keys |-> NoEntry]
PhotoKeys == PlaceIds \X PhotoIndexes

(***************************************************************************)
(* Configuration: isPlacesApiEnabled.                                      *)
(***************************************************************************)
Env(enabled, provider, googleKey, serpKey, searchKey) ==
    [PLACES_API_ENABLED |-> enabled, PLACES_PROVIDER |-> provider,
     GOOGLE_PLACES_API_KEY |-> googleKey, SERPAPI_KEY |-> serpKey,
     SEARCHAPI_KEY |-> searchKey, PLACES_PREFETCH_ENABLED |-> FALSE]

\* the environments of the model: the provider switched off, and each
\* provider switched on with its key
Configs ==
    { Env(FALSE, "google", TRUE, FALSE, FALSE),
      Env(TRUE, "google", TRUE, FALSE, FALSE),
      Env(TRUE, "serpapi", FALSE, TRUE, FALSE),
      Env(TRUE, "searchapi", FALSE, FALSE, TRUE) }

isPlacesApiEnabled ==
    IF ~config.PLACES_API_ENABLED THEN FALSE
    ELSE IF config.PLACES_PROVIDER = "serpapi" THEN config.SERPAPI_KEY
    ELSE IF config.PLACES_PROVIDER = "searchapi" THEN config.SEARCHAPI_KEY
    ELSE config.GOOGLE_PLACES_API_KEY

(***************************************************************************)
(* The memory tier.                                                        *)
(***************************************************************************)
\* an entry that expires now still counts as valid
getCachedValue_Inclusive(cache, key) ==
    LET entry == cache[key] IN
    IF ~entry.present THEN [value |-> Null, cache |-> cache]
    ELSE IF entry.expiresAt >= now THEN [value |-> entry.value, cache |-> cache]
    ELSE [value |-> Null, cache |-> [cache EXCEPT ![key] = NoEntry]]

getCachedValue(cache, key) ==
    LET entry == cache[key] IN
    IF ~entry.present THEN [value |-> Null, cache |-> cache]
    ELSE IF entry.expiresAt > now THEN [value |-> entry.value, cache |-> cache]
    ELSE [value |-> Null, cache |-> [cache EXCEPT ![key] = NoEntry]]

setCachedValue(cache, key, value) ==
    [cache EXCEPT ![key] = [value |-> value,
                            expiresAt |-> now + PLACES_CACHE_TTL_MS,
                            present |-> TRUE]]

(***************************************************************************)
(* The disk tier.  A world record w carries the mutable state through the  *)
(* synchronous part of a handler: mem, ids, pics are the three memory      *)
(* caches, disk the resident object, file the JSON file.                   *)
(***************************************************************************)
NotLoaded == [loaded |-> FALSE, map |-> EmptyMap]
MissingFile == [valid |-> FALSE, map |-> EmptyMap]

\* the file is read again by every call
loadPlaceDetailsDiskCache_Reread(w) ==
    [w EXCEPT !.disk = [loaded |-> TRUE,
                        map |-> IF w.file.valid THEN w.file.map ELSE EmptyMap]]

loadPlaceDetailsDiskCache(w) ==
    IF w.disk.loaded THEN w
    ELSE [w EXCEPT !.disk = [loaded |-> TRUE,
                             map |-> IF w.file.valid THEN w.file.map
                                     ELSE EmptyMap]]

\* writeOk: whether fs.writeFileSync succeeds; a failure is logged only.
\* writes is the operation's record of the outcomes of its writes.
savePlaceDetailsDiskCache(w, writeOk) ==
    IF ~w.disk.loaded THEN w
    ELSE IF writeOk
         THEN [w EXCEPT !.file = [valid |-> TRUE, map |-> w.disk.map],
                        !.writes = @ \cup {"ok"}]
    ELSE [w EXCEPT !.writes = @ \cup {"failed"}]

\* the world as operation i finds it; calls, expired and writes are the
\* operation's own record of the provider requests it issued, of the expired
\* memory entries its reads met and of its writes of the disk file; queue
\* and log are the place ids a prefetch run has still to visit and the record
\* of what it did
World(i) ==
    [mem |-> placesCache, ids |-> placeIdCache, pics |-> placePhotoCache,
     disk |-> placeDetailsDiskCache, file |-> diskFile, pfiles |-> photoFiles,
     running |-> prefetchRunning,
     calls |-> procs[i].calls, expired |-> procs[i].expired,
     writes |-> procs[i].writes, queue |-> procs[i].queue, log |-> procs[i].log]

IsExpired(cache, key) == cache[key].present /\ ~(cache[key].expiresAt > now)

(***************************************************************************)
(* Provider responses.  A response either fails in transport (fetch        *)
(* rejects), carries a non-OK HTTP status, carries a body that is not      *)
(* JSON, or carries a JSON payload.                                        *)
(***************************************************************************)
FailureKinds == {"network_error", "http_error", "malformed"}
NoData == [status |-> "NONE", result |-> Null, candidates |-> <<>>,
           local_results |-> <<>>, place_results |-> Null]
Failure(k) == [kind |-> k, data |-> NoData]
Ok(data) == [kind |-> "ok", data |-> data]

\* fetchJson: res.json() is awaited before res.ok is tested; every failure
\* is an exception
fetchJson(resp) ==
    IF resp.kind = "ok" THEN [threw |-> FALSE, data |-> resp.data]
    ELSE [threw |-> TRUE, data |-> NoData]

\* photo references of a provider result of version ver
Refs(ver, ref) == [n \in 1..(ver - 1) |-> ref]

OtherPlace(p) == IF p = "p1" THEN "p2" ELSE "p1"

\* payloads of a details request for place p
DetailPayloads(p) ==
    { [NoData EXCEPT !.status = "ZERO_RESULTS"] }
    \cup { [NoData EXCEPT !.status = "OK",
                          !.result = RawPlace(p, PlaceName(p), v, Refs(v, GoogleRef)),
                          !.place_results =
                              RawPlace("", PlaceName(p), v, Refs(v, HttpRef))]
           : v \in Versions }
    \cup { [NoData EXCEPT !.status = "OK",
                          !.result = RawPlace(p, PlaceName(p), 1, Refs(1, GoogleRef)),
                          !.local_results =
                              << RawPlace(OtherPlace(p), PlaceName(OtherPlace(p)),
                                          1, Refs(1, HttpRef)),
                                 RawPlace(p, PlaceName(p), 1, Refs(1, HttpRef)) >>] }

DetailResponses(p) ==
    { Failure(k) : k \in FailureKinds } \cup { Ok(d) : d \in DetailPayloads(p) }

\* the place the provider knows under a free-text query
QueryPlace(q) == IF q = "B" THEN "p2" ELSE "p1"

FindPayloads(q) ==
    { [NoData EXCEPT !.status = "ZERO_RESULTS"],
      [NoData EXCEPT !.status = "OK",
                     !.candidates = << RawPlace(QueryPlace(q), q, 1, <<>>) >>,
                     !.local_results = << RawPlace(QueryPlace(q), q, 1, <<>>) >>],
      [NoData EXCEPT !.status = "OK",
                     !.candidates = << RawPlace("", q, 1, <<>>) >>,
                     !.place_results = RawPlace("", q, 1, <<>>)] }

FindResponses(q) ==
    { Failure(k) : k \in FailureKinds } \cup { Ok(d) : d \in FindPayloads(q) }

PhotoPayload == [kind |-> "photo", buffer |-> "bytes", contentType |-> "image/jpeg"]
PhotoResponses == { Failure("network_error"), Failure("http_error"), Ok(NoData) }

IdVal(id) == [kind |-> "id", id |-> id]

\* a step of an asynchronous operation: the world it leaves, where it waits
\* next ("done" when it returned) and what it returned
Step(w, pc, res) ==
    [w |-> w, pc |-> pc, res |-> res, status |-> 0, threw |-> FALSE,
     failed |-> FALSE, live |-> Null, stage |-> ""]

Call(w, kind, key, index) == [w EXCEPT !.calls = @ \cup {kind}]
NoteExpired(w, cache, key, what) ==
    IF IsExpired(cache, key) THEN [w EXCEPT !.expired = @ \cup {what}] ELSE w

IsSerp == config.PLACES_PROVIDER \in {"serpapi", "searchapi"}
\* fetchSerpApiJson throws before any request when its key is missing
SerpKey ==
    IF config.PLACES_PROVIDER = "searchapi" THEN config.SEARCHAPI_KEY
    ELSE config.SERPAPI_KEY

(***************************************************************************)
(* fetchPlaceIdByQuery                                                     *)
(***************************************************************************)
fetchPlaceIdByQuery_Start(w, query) ==
    IF ~isPlacesApiEnabled \/ query = "" THEN Step(w, "done", IdVal(""))
    ELSE
      LET c  == getCachedValue(w.ids, query)
          w1 == [NoteExpired(w, w.ids, query, "id") EXCEPT !.ids = c.cache]
      IN IF c.value # Null THEN Step(w1, "done", c.value)
         ELSE IF IsSerp
              THEN IF SerpKey THEN Step(Call(w1, "find", query, 0), "find", Null)
                   ELSE Step(w1, "done", IdVal(""))
         ELSE IF ~config.GOOGLE_PLACES_API_KEY THEN Step(w1, "done", IdVal(""))
         ELSE Step(Call(w1, "find", query, 0), "find", Null)

FirstOrNull(seq) == IF Len(seq) > 0 THEN seq[1] ELSE Null

\* the id found is returned but not kept
fetchPlaceIdByQuery_Resume_NoCache(w, query, resp) ==
    LET r == fetchJson(resp) IN
    IF r.threw THEN Step(w, "done", IdVal(""))
    ELSE LET first ==
               IF IsSerp
               THEN IF Len(r.data.local_results) > 0 THEN r.data.local_results[1]
                    ELSE r.data.place_results
               ELSE IF r.data.status # "OK" THEN Null
                    ELSE FirstOrNull(r.data.candidates)
         IN Step(w, "done", IdVal(IF first = Null THEN "" ELSE first.place_id))

fetchPlaceIdByQuery_Resume(w, query, resp) ==
    LET r == fetchJson(resp) IN
    IF r.threw THEN Step(w, "done", IdVal(""))
    ELSE
      LET first ==
            IF IsSerp
            THEN IF Len(r.data.local_results) > 0 THEN r.data.local_results[1]
                 ELSE r.data.place_results
            ELSE IF r.data.status # "OK" THEN Null
                 ELSE FirstOrNull(r.data.candidates)
          placeId == IF first = Null THEN "" ELSE first.place_id
      IN IF placeId # ""
         THEN Step([w EXCEPT !.ids = setCachedValue(w.ids, query, IdVal(placeId))],
                   "done", IdVal(placeId))
         ELSE Step(w, "done", IdVal(""))

(***************************************************************************)
(* fetchPlaceDetails                                                       *)
(***************************************************************************)
RECURSIVE FindMatch(_, _, _)
FindMatch(seq, placeId, n) ==
    IF n > Len(seq) THEN Null
    ELSE IF seq[n].place_id = placeId THEN seq[n]
    ELSE FindMatch(seq, placeId, n + 1)

pickPlaceResult(data, placeId) ==
    LET candidates ==
          IF Len(data.local_results) > 0 THEN data.local_results
          ELSE IF data.place_results # Null THEN <<data.place_results>>
          ELSE <<>>
    IN IF placeId = "" THEN FirstOrNull(candidates)
       ELSE LET match == FindMatch(candidates, placeId, 1)
            IN IF match # Null THEN match ELSE FirstOrNull(candidates)

mapSerpPlaceResult(place, fallbackPlaceId) ==
    IF place = Null THEN Null
    ELSE [place EXCEPT !.place_id = IF @ # "" THEN @ ELSE fallbackPlaceId]

\* the switch of the provider is not looked at
fetchPlaceDetails_Start_IgnoringSwitch(w, placeId, query) ==
    IF placeId = "" THEN Step(w, "done", Null)
    ELSE
      LET c  == getCachedValue(w.mem, placeId)
          w1 == [w EXCEPT !.mem = c.cache]
          w2 == loadPlaceDetailsDiskCache(w1)
      IN IF c.value # Null THEN Step(w1, "done", c.value)
         ELSE IF w2.disk.map[placeId] # Null
              THEN Step([w2 EXCEPT !.mem = setCachedValue(w2.mem, placeId,
                                                          w2.disk.map[placeId])],
                        "done", w2.disk.map[placeId])
         ELSE Step(Call(w2, "details", placeId, 0), "details", Null)

fetchPlaceDetails_Start(w, placeId, query) ==
    IF ~isPlacesApiEnabled \/ placeId = "" THEN Step(w, "done", Null)
    ELSE
      LET c  == getCachedValue(w.mem, placeId)
          w1 == [NoteExpired(w, w.mem, placeId, "details") EXCEPT !.mem = c.cache]
          w2 == loadPlaceDetailsDiskCache(w1)
      IN IF c.value # Null THEN Step(w1, "done", c.value)
         ELSE IF w2.disk.map[placeId] # Null
              THEN Step([w2 EXCEPT !.mem = setCachedValue(w2.mem, placeId,
                                                          w2.disk.map[placeId])],
                        "done", w2.disk.map[placeId])
         ELSE IF config.PLACES_PROVIDER = "searchapi"
              THEN IF query = "" THEN Step(w2, "done", Null)
                   ELSE IF ~SerpKey THEN Step(w2, "done", Null)
                   ELSE Step(Call(w2, "details", placeId, 0), "details", Null)
         ELSE IF config.PLACES_PROVIDER = "serpapi"
              THEN IF ~SerpKey THEN Step(w2, "done", Null)
                   ELSE Step(Call(w2, "details", placeId, 0), "details", Null)
         ELSE IF ~config.GOOGLE_PLACES_API_KEY THEN Step(w2, "done", Null)
         ELSE Step(Call(w2, "details", placeId, 0), "details", Null)

\* the result reaches the memory tier only
writeThrough_MemoryOnly(w, placeId, value, writeOk) ==
    [w EXCEPT !.mem = setCachedValue(w.mem, placeId, value)]

\* the file is rewritten with the writer's own entry only
writeThrough_OwnEntryOnly(w, placeId, value, writeOk) ==
    LET w2 == [w EXCEPT !.mem = setCachedValue(w.mem, placeId, value),
                        !.disk.map[placeId] = value]
    IN IF writeOk
       THEN [w2 EXCEPT !.file = [valid |-> TRUE,
                                 map |-> [EmptyMap EXCEPT ![placeId] = value]],
                       !.writes = @ \cup {"ok"}]
       ELSE [w2 EXCEPT !.writes = @ \cup {"failed"}]

\* setCachedValue; diskCache[placeId] = value; savePlaceDetailsDiskCache()
writeThrough(w, placeId, value, writeOk) ==
    savePlaceDetailsDiskCache(
        [w EXCEPT !.mem = setCachedValue(w.mem, placeId, value),
                  !.disk.map[placeId] = value],
        writeOk)

\* an answer that arrives after the place was stored is returned but not
\* stored
fetchPlaceDetails_Resume_FirstWins(w, placeId, resp, writeOk) ==
    LET r == fetchJson(resp) IN
    IF r.threw \/ r.data.status # "OK" \/ r.data.result = Null
    THEN [Step(w, "done", Null) EXCEPT !.failed = TRUE]
    ELSE IF w.disk.map[placeId] # Null
         THEN [Step(w, "done", r.data.result) EXCEPT !.live = r.data.result]
    ELSE [Step(writeThrough(w, placeId, r.data.result, writeOk), "done",
               r.data.result) EXCEPT !.live = r.data.result]

fetchPlaceDetails_Resume(w, placeId, resp, writeOk) ==
    LET r == fetchJson(resp) IN
    IF r.threw THEN [Step(w, "done", Null) EXCEPT !.failed = TRUE]
    ELSE
      LET mapped ==
            IF config.PLACES_PROVIDER = "searchapi"
            THEN mapSerpPlaceResult(pickPlaceResult(r.data, placeId), placeId)
            ELSE IF config.PLACES_PROVIDER = "serpapi"
            THEN mapSerpPlaceResult(
                    IF r.data.place_results # Null THEN r.data.place_results
                    ELSE FirstOrNull(r.data.local_results), placeId)
            ELSE IF r.data.status # "OK" THEN Null
            ELSE r.data.result
      IN IF mapped = Null THEN [Step(w, "done", Null) EXCEPT !.failed = TRUE]
         ELSE [Step(writeThrough(w, placeId, mapped, writeOk), "done", mapped)
                 EXCEPT !.live = mapped]

(***************************************************************************)
(* getCompanyPlaceData                                                     *)
(***************************************************************************)
\* a failed fetch is answered with null, whatever the disk tier holds
getCompanyPlaceData_Finish_NoFallback(s, placeId, writeOk) ==
    IF s.res # Null
    THEN [s EXCEPT !.w = savePlaceDetailsDiskCache(
                             [s.w EXCEPT !.disk.map[placeId] = s.res], writeOk)]
    ELSE s

\* if (live) { diskCache[placeId] = live; save; return live }
\* return diskCache[placeId] || null
getCompanyPlaceData_Finish(s, placeId, writeOk) ==
    IF s.res # Null
    THEN [s EXCEPT !.w = savePlaceDetailsDiskCache(
                             [s.w EXCEPT !.disk.map[placeId] = s.res], writeOk)]
    ELSE [s EXCEPT !.res = s.w.disk.map[placeId]]

getCompanyPlaceData_AfterId(w, query, placeId, writeOk) ==
    IF placeId = "" THEN Step(w, "done", Null)
    ELSE LET s == fetchPlaceDetails_Start(w, placeId, query)
         IN IF s.pc = "done" THEN getCompanyPlaceData_Finish(s, placeId, writeOk)
            ELSE s

\* the disk entries whose name is the company's name
NameMatches(w, company) ==
    { p \in PlaceIds : w.disk.map[p] # Null /\ w.disk.map[p].name = company.name }

\* the place data is whatever fetchPlaceDetails returns, the provider being
\* enabled or not
getCompanyPlaceData_Start_ViaFetch(w, company, pick, writeOk) ==
    LET w1 == loadPlaceDetailsDiskCache(w)
    IN IF company.placeId # ""
       THEN fetchPlaceDetails_Start(w1, company.placeId, company.name)
       ELSE LET f == fetchPlaceIdByQuery_Start(w1, company.name)
            IN IF f.pc = "done"
               THEN getCompanyPlaceData_AfterId(f.w, company.name, f.res.id, writeOk)
               ELSE f

\* pick: the entry Object.values(diskCache).find returns among the matches
getCompanyPlaceData_Start(w, company, pick, writeOk) ==
    LET explicitPlaceId == company.placeId
        query == company.name
        w1 == loadPlaceDetailsDiskCache(w)
        cachedByPlaceId ==
            IF explicitPlaceId # "" THEN w1.disk.map[explicitPlaceId] ELSE Null
    IN IF ~isPlacesApiEnabled
       THEN IF cachedByPlaceId # Null THEN Step(w1, "done", cachedByPlaceId)
            ELSE IF pick \in NameMatches(w1, company)
                 THEN Step(w1, "done", w1.disk.map[pick])
            ELSE Step(w1, "done", Null)
       ELSE IF explicitPlaceId # ""
            THEN getCompanyPlaceData_AfterId(w1, query, explicitPlaceId, writeOk)
            ELSE LET f == fetchPlaceIdByQuery_Start(w1, query)
                 IN IF f.pc = "done"
                    THEN getCompanyPlaceData_AfterId(f.w, query, f.res.id, writeOk)
                    ELSE f

(***************************************************************************)
(* fetchPlacePhoto and the local photo files                               *)
(***************************************************************************)
\* the file name getLocalPlacePhoto looks up: <id>.jpg, or <id>-<index>.jpg
LocalPhotoName(placeId, index) == <<placeId, IF index > 0 THEN index ELSE 0>>

getLocalPlacePhoto(w, placeId, index) ==
    placeId # "" /\ LocalPhotoName(placeId, index) \in w.pfiles

FileBytes == [kind |-> "photo", buffer |-> "file", contentType |-> "image/jpeg"]

fetchPlacePhoto_AfterDetails(w, placeId, index, details) ==
    LET photos == IF details = Null THEN <<>> ELSE details.photos
        photoRef == IF Len(photos) > index THEN photos[index + 1]
                    ELSE IF Len(photos) > 0 THEN photos[1]
                    ELSE Null
    IN IF photoRef = Null THEN Step(w, "done", Null)
       ELSE IF photoRef.http
            THEN Step(Call(w, "photo", placeId, index), "photo", Null)
       ELSE IF ~config.GOOGLE_PLACES_API_KEY THEN Step(w, "done", Null)
       ELSE Step(Call(w, "photo", placeId, index), "photo", Null)

fetchPlacePhoto_Start(w, placeId, index) ==
    IF ~isPlacesApiEnabled \/ placeId = "" THEN Step(w, "done", Null)
    ELSE
      LET normalizedIndex == IF index >= 0 THEN index ELSE 0
          cacheKey == <<placeId, normalizedIndex>>
          c  == getCachedValue(w.pics, cacheKey)
          w1 == [NoteExpired(w, w.pics, cacheKey, "photo") EXCEPT !.pics = c.cache]
      IN IF c.value # Null THEN Step(w1, "done", c.value)
         ELSE LET s == fetchPlaceDetails_Start(w1, placeId, "")
              IN IF s.pc = "done"
                 THEN fetchPlacePhoto_AfterDetails(s.w, placeId, normalizedIndex, s.res)
                 ELSE s

fetchPlacePhoto_Resume(w, placeId, index, resp) ==
    IF resp.kind # "ok" THEN Step(w, "done", Null)
    ELSE Step([w EXCEPT !.pics = setCachedValue(w.pics, <<placeId, index>>,
                                                PhotoPayload)],
              "done", PhotoPayload)

(***************************************************************************)
(* GET /api/place-photo/:placeId/:index?                                   *)
(***************************************************************************)
\* the file is named <id>.jpg whatever the index
placePhotoRoute_Finish_FirstName(s, placeId, index, fileWriteOk) ==
    IF s.res = Null THEN [s EXCEPT !.status = 404]
    ELSE [s EXCEPT !.status = 200,
                   !.w.pfiles = IF fileWriteOk THEN @ \cup {<<placeId, 0>>} ELSE @]

placePhotoRoute_Finish(s, placeId, index, fileWriteOk) ==
    IF s.res = Null THEN [s EXCEPT !.status = 404]
    ELSE [s EXCEPT !.status = 200,
                   !.w.pfiles = IF fileWriteOk
                                THEN @ \cup {<<placeId, IF index <= 0 THEN 0 ELSE index>>}
                                ELSE @]

placePhotoRoute_Start(w, placeId, index, readOk, fileWriteOk) ==
    IF placeId = "" THEN [Step(w, "done", Null) EXCEPT !.status = 404]
    ELSE IF getLocalPlacePhoto(w, placeId, index) /\ readOk
         THEN [Step(w, "done", FileBytes) EXCEPT !.status = 200]
    ELSE IF ~isPlacesApiEnabled THEN [Step(w, "done", Null) EXCEPT !.status = 404]
    ELSE LET s == fetchPlacePhoto_Start(w, placeId, index)
         IN IF s.pc = "done" THEN placePhotoRoute_Finish(s, placeId, index, fileWriteOk)
            ELSE s

(***************************************************************************)
(* prefetchPlacesCache.  The run notes in its log what it does and when:   *)
(* the start and the end of the details fetch and of the photo fetch of a  *)
(* place, and the end of the sleep that follows them.                      *)
(***************************************************************************)
PREFETCH_DELAY_MS == 250

Note(w, event, placeId) == [w EXCEPT !.log = Append(@, <<event, placeId, now>>)]

\* await sleep(PREFETCH_DELAY_MS)
prefetchPlacesCache_Sleep(w, placeId) ==
    [Step(Note(w, "photoDone", placeId), "sleep", Null) EXCEPT !.stage = "sleep"]

\* fetchPlacePhoto(placeId) goes on with the details it waited for
prefetchPlacesCache_AfterPhotoDetails(w, placeId, details) ==
    LET a == fetchPlacePhoto_AfterDetails(w, placeId, 0, details)
    IN IF a.pc = "done" THEN prefetchPlacesCache_Sleep(a.w, placeId)
       ELSE [a EXCEPT !.stage = "photo"]

\* await fetchPlaceDetails(placeId) returned: await fetchPlacePhoto(placeId)
prefetchPlacesCache_AfterDetails(w, placeId) ==
    LET p == fetchPlacePhoto_Start(
                 Note(Note(w, "detailsDone", placeId), "photo", placeId),
                 placeId, 0)
    IN IF p.pc = "done" THEN prefetchPlacesCache_Sleep(p.w, placeId)
       ELSE [p EXCEPT !.stage = "photo"]

\* the body of the loop up to its first wait
prefetchPlacesCache_Iterate(w, placeId) ==
    LET d == fetchPlaceDetails_Start(Note(w, "details", placeId), placeId, "")
    IN IF d.pc = "done" THEN prefetchPlacesCache_AfterDetails(d.w, placeId)
       ELSE [d EXCEPT !.stage = "details"]

\* a partial that carries both placeholders; a partial that could not be
\* read is the empty string
Template == <<"<!--COMPANY_NAV-->", "<!--COMPANY_SECTIONS-->">>
NoTemplate == << >>

\* loadCompaniesData(): a file that is missing, that is not JSON or that
\* holds no array is read as the empty list
loadCompaniesData == IF companiesFile = "valid" THEN companies ELSE << >>

\* [...new Set(companies.map(placeId).filter(Boolean))]
prefetchPlaceIds ==
    LET list == loadCompaniesData
    IN InsertionOrder([n \in DOMAIN list |-> list[n].placeId],
                      {n \in DOMAIN list : list[n].placeId # ""})

\* a call starts a run whatever the flag says
prefetchPlacesCache_Start_Unguarded(w) ==
    IF ~config.PLACES_PREFETCH_ENABLED \/ ~isPlacesApiEnabled
    THEN [Step(w, "done", Null) EXCEPT !.stage = "skipped"]
    ELSE LET w1 == [w EXCEPT !.running = TRUE, !.queue = prefetchPlaceIds]
         IN IF Len(w1.queue) = 0
            THEN Step([w1 EXCEPT !.running = FALSE], "done", Null)
            ELSE prefetchPlacesCache_Iterate(w1, w1.queue[1])

\* companies.map(company => company.placeId ...) throws a TypeError on an
\* element that is null
MapThrows == \E n \in DOMAIN loadCompaniesData : loadCompaniesData[n] = Null

\* the flag is reset at the end of the loop only
prefetchPlacesCache_Start_NoFinally(w) ==
    IF ~config.PLACES_PREFETCH_ENABLED \/ ~isPlacesApiEnabled \/ w.running
    THEN [Step(w, "done", Null) EXCEPT !.stage = "skipped"]
    ELSE IF MapThrows
    THEN [Step([w EXCEPT !.running = TRUE], "done", Null) EXCEPT !.threw = TRUE]
    ELSE LET w1 == [w EXCEPT !.running = TRUE, !.queue = prefetchPlaceIds]
         IN IF Len(w1.queue) = 0
            THEN Step(w1, "done", Null)
            ELSE prefetchPlacesCache_Iterate(w1, w1.queue[1])

\* the run up to its first wait; catch logs the error and finally resets
\* the flag
prefetchPlacesCache_Start(w) ==
    IF ~config.PLACES_PREFETCH_ENABLED \/ ~isPlacesApiEnabled \/ w.running
    THEN [Step(w, "done", Null) EXCEPT !.stage = "skipped"]
    ELSE IF MapThrows
    THEN [Step([w EXCEPT !.running = FALSE], "done", Null) EXCEPT !.threw = TRUE]
    ELSE LET w1 == [w EXCEPT !.running = TRUE, !.queue = prefetchPlaceIds]
         IN IF Len(w1.queue) = 0
            THEN Step([w1 EXCEPT !.running = FALSE], "done", Null)
            ELSE prefetchPlacesCache_Iterate(w1, w1.queue[1])

\* the place after the next one is visited next
prefetchPlacesCache_Wake_SkipsOne(w) ==
    LET w1 == [Note(w, "sleepDone", Head(w.queue)) EXCEPT
                  !.queue = IF Len(@) > 1 THEN Tail(Tail(@)) ELSE Tail(@)]
    IN IF Len(w1.queue) = 0
       THEN Step([w1 EXCEPT !.running = FALSE], "done", Null)
       ELSE prefetchPlacesCache_Iterate(w1, w1.queue[1])

\* the sleep is over: the next place, or the end of the run (finally)
prefetchPlacesCache_Wake(w) ==
    LET w1 == [Note(w, "sleepDone", Head(w.queue)) EXCEPT !.queue = Tail(@)]
    IN IF Len(w1.queue) = 0
       THEN Step([w1 EXCEPT !.running = FALSE], "done", Null)
       ELSE prefetchPlacesCache_Iterate(w1, w1.queue[1])

(***************************************************************************)
(* GET /company/:slug                                                      *)
(***************************************************************************)
CompanyIndex(slug) ==
    LET list == loadCompaniesData
    IN IF \E n \in 1..Len(list) : list[n].slug = slug
       THEN CHOOSE n \in 1..Len(list) :
               /\ list[n].slug = slug
               /\ \A m \in 1..(n - 1) : list[m].slug # slug
       ELSE 0

companyRoute_Finish(s) == IF s.pc = "done" THEN [s EXCEPT !.status = 200] ELSE s

\* a slug that no company has is answered with the page of the first company
companyRoute_Start_FirstCompany(w, slug, pick, writeOk) ==
    companyRoute_Finish(
        getCompanyPlaceData_Start(
            w, companies[IF CompanyIndex(slug) = 0 THEN 1 ELSE CompanyIndex(slug)],
            pick, writeOk))

\* renderCompanyPage returns '' before any lookup when
\* partials/company.html could not be read
companyRoute_Start(w, slug, pick, writeOk) ==
    IF CompanyIndex(slug) = 0 THEN [Step(w, "done", Null) EXCEPT !.status = 404]
    ELSE IF templates.companyTemplate = NoTemplate
    THEN [Step(w, "done", Null) EXCEPT !.status = 500]
    ELSE companyRoute_Finish(
            getCompanyPlaceData_Start(w, companies[CompanyIndex(slug)], pick, writeOk))

(***************************************************************************)
(* Asynchronous operations.  An operation runs without interleaving from   *)
(* one outbound request to the next (single-threaded event loop); pc names *)
(* the request it waits for.                                               *)
(***************************************************************************)
IdleProc ==
    [op |-> "idle", pc |-> "idle", slug |-> "", placeId |-> "", index |-> 0,
     query |-> "", res |-> Null, status |-> 0, threw |-> FALSE, failed |-> FALSE,
     live |-> Null, calls |-> {}, expired |-> {}, writes |-> {},
     stage |-> "", queue |-> << >>, log |-> << >>]

\* a new operation takes the lowest free slot
Free(i) ==
    /\ procs[i].pc = "idle"
    /\ \A j \in Slots : j < i => procs[j].pc # "idle"

\* the state after step s of operation i, whose record before the step is pr
Commit(i, pr, s) ==
    /\ UNCHANGED <<pageVars, formVars>>
    /\ placesCache' = s.w.mem
    /\ placeIdCache' = s.w.ids
    /\ placePhotoCache' = s.w.pics
    /\ placeDetailsDiskCache' = s.w.disk
    /\ diskFile' = s.w.file
    /\ photoFiles' = s.w.pfiles
    /\ prefetchRunning' = s.w.running
    /\ LET after ==
            [pr EXCEPT !.pc = s.pc, !.res = s.res, !.status = s.status,
                       !.threw = s.threw,
                       !.failed = @ \/ s.failed,
                       !.live = IF s.live # Null THEN s.live ELSE @,
                       !.calls = s.w.calls, !.expired = s.w.expired,
                       !.writes = s.w.writes, !.stage = s.stage,
                       !.queue = s.w.queue, !.log = s.w.log]
       IN IF s.pc = "done"
          THEN /\ procs' = [procs EXCEPT ![i] = IdleProc]
               /\ last' = after
          ELSE /\ procs' = [procs EXCEPT ![i] = after]
               /\ last' = IdleProc

NewProc(op, slug, placeId, index, query) ==
    [IdleProc EXCEPT !.op = op, !.slug = slug, !.placeId = placeId,
                     !.index = index, !.query = query]

StartWorld(i) == [World(i) EXCEPT !.calls = {}, !.expired = {}, !.writes = {}]

\* GET /company/:slug
StartCompany(i, slug, pick, writeOk) ==
    /\ Free(i) /\ started < MaxRequests
    /\ LET n == CompanyIndex(slug)
           w == StartWorld(i)
           matches == IF n = 0 THEN {}
                      ELSE NameMatches(loadPlaceDetailsDiskCache(w), companies[n])
           s == companyRoute_Start(w, slug, pick, writeOk)
           resolved == IF n = 0 THEN ""
                       ELSE IF companies[n].placeId # "" THEN companies[n].placeId
                       ELSE IF s.pc = "find" THEN ""
                       ELSE IF isPlacesApiEnabled
                            THEN fetchPlaceIdByQuery_Start(loadPlaceDetailsDiskCache(w),
                                                           companies[n].name).res.id
                       ELSE ""
       IN /\ IF matches # {} THEN pick \in matches ELSE pick = "p1"
          /\ (~isPlacesApiEnabled => writeOk)
          /\ Commit(i, NewProc("company", slug, resolved, 0,
                               IF n = 0 THEN "" ELSE companies[n].name), s)
    /\ started' = started + 1
    /\ UNCHANGED <<now, ticks, config, companies, companiesFile>>

\* fetchPlaceDetails(placeId, query) called on its own
StartDetails(i, placeId, query) ==
    /\ Free(i) /\ started < MaxRequests
    /\ Commit(i, NewProc("details", "", placeId, 0, query),
              fetchPlaceDetails_Start(StartWorld(i), placeId, query))
    /\ started' = started + 1
    /\ UNCHANGED <<now, ticks, config, companies, companiesFile>>

\* GET /api/place-photo/:placeId/:index?
StartPhoto(i, placeId, index, readOk, fileWriteOk) ==
    /\ Free(i) /\ started < MaxRequests
    /\ (~getLocalPlacePhoto(World(i), placeId, index) => readOk)
    /\ (~isPlacesApiEnabled => fileWriteOk)
    /\ Commit(i, NewProc("photo", "", placeId, index, ""),
              placePhotoRoute_Start(StartWorld(i), placeId, index, readOk, fileWriteOk))
    /\ started' = started + 1
    /\ UNCHANGED <<now, ticks, config, companies, companiesFile>>

\* fetchPlaceIdByQuery(query) called on its own
StartFind(i, query) ==
    /\ Free(i) /\ started < MaxRequests
    /\ Commit(i, NewProc("find", "", "", 0, query),
              fetchPlaceIdByQuery_Start(StartWorld(i), query))
    /\ started' = started + 1
    /\ UNCHANGED <<now, ticks, config, companies, companiesFile>>

\* a timer calls prefetchPlacesCache()
StartPrefetch(i) ==
    /\ Free(i) /\ started < MaxRequests
    /\ LET s == prefetchPlacesCache_Start(StartWorld(i))
       IN Commit(i, NewProc("prefetch", "",
                            IF Len(s.w.queue) > 0 THEN s.w.queue[1] ELSE "", 0, ""),
                 s)
    /\ started' = started + 1
    /\ UNCHANGED <<now, ticks, config, companies, companiesFile>>

\* the time at which the sleep of run i is over
WakeAt(i) == procs[i].log[Len(procs[i].log)][3] + PREFETCH_DELAY_MS

\* the timer of the sleep of run i fires
WakePrefetch(i) ==
    /\ procs[i].pc = "sleep"
    /\ now >= WakeAt(i)
    /\ LET s == prefetchPlacesCache_Wake(World(i))
       IN Commit(i, [procs[i] EXCEPT
                       !.placeId = IF Len(s.w.queue) > 0 THEN s.w.queue[1] ELSE "",
                       !.live = Null, !.failed = FALSE],
                 s)
    /\ UNCHANGED <<now, ticks, config, companies, companiesFile, started>>

\* time passes until the earliest sleep is over
Elapse ==
    /\ \E i \in Slots : procs[i].pc = "sleep" /\ now < WakeAt(i)
    /\ now' = CHOOSE t \in {WakeAt(i) : i \in {j \in Slots : procs[j].pc = "sleep"
                                                          /\ now < WakeAt(j)}} :
                  \A j \in Slots : (procs[j].pc = "sleep" /\ now < WakeAt(j))
                                       => t <= WakeAt(j)
    /\ last' = IdleProc
    /\ UNCHANGED <<ticks, config, companies, companiesFile, placesCache, placeIdCache,
                   placePhotoCache, placeDetailsDiskCache, diskFile, photoFiles,
                   procs, started, prefetchRunning>>
    /\ UNCHANGED <<pageVars, formVars>>

\* the provider answers the find request of operation i
RespondFind(i, resp, writeOk) ==
    /\ procs[i].pc = "find"
    /\ (resp.kind # "ok" => writeOk)
    /\ (procs[i].op = "find" => writeOk)
    /\ LET f == fetchPlaceIdByQuery_Resume(World(i), procs[i].query, resp)
           s == IF procs[i].op = "find" THEN f
                ELSE companyRoute_Finish(
                        getCompanyPlaceData_AfterId(f.w, procs[i].query, f.res.id,
                                                    writeOk))
       IN Commit(i, [procs[i] EXCEPT !.placeId = f.res.id], s)
    /\ UNCHANGED <<now, ticks, config, companies, companiesFile, started>>

\* the provider answers the details request of operation i
RespondDetails(i, resp, writeOk, writeOk2, fileWriteOk) ==
    /\ procs[i].pc = "details"
    \* an outcome that the operation does not read is fixed
    /\ (procs[i].op # "company" => writeOk2)
    /\ (procs[i].op # "photo" => fileWriteOk)
    /\ (resp.kind # "ok" => writeOk /\ writeOk2)
    /\ LET pr == procs[i]
           d == fetchPlaceDetails_Resume(World(i), pr.placeId, resp, writeOk)
           s == IF pr.op = "company"
                THEN companyRoute_Finish(
                        getCompanyPlaceData_Finish(d, pr.placeId, writeOk2))
                ELSE IF pr.op = "photo"
                THEN LET a == fetchPlacePhoto_AfterDetails(d.w, pr.placeId,
                                                           pr.index, d.res)
                         b == [a EXCEPT !.failed = d.failed, !.live = d.live]
                     IN IF b.pc = "done"
                        THEN placePhotoRoute_Finish(b, pr.placeId, pr.index, fileWriteOk)
                        ELSE b
                ELSE IF pr.op = "prefetch"
                THEN [(IF pr.stage = "details"
                       THEN prefetchPlacesCache_AfterDetails(d.w, pr.placeId)
                       ELSE prefetchPlacesCache_AfterPhotoDetails(d.w, pr.placeId,
                                                                  d.res))
                        EXCEPT !.failed = d.failed, !.live = d.live]
                ELSE d
       IN Commit(i, pr, s)
    /\ UNCHANGED <<now, ticks, config, companies, companiesFile, started>>

\* the photo download of operation i ends
RespondPhoto(i, resp, fileWriteOk) ==
    /\ procs[i].pc = "photo"
    /\ (resp.kind # "ok" => fileWriteOk)
    /\ (procs[i].op = "prefetch" => fileWriteOk)
    /\ LET pr == procs[i]
           r == fetchPlacePhoto_Resume(World(i), pr.placeId, pr.index, resp)
       IN Commit(i, pr,
                 IF pr.op = "prefetch" THEN prefetchPlacesCache_Sleep(r.w, pr.placeId)
                 ELSE placePhotoRoute_Finish(r, pr.placeId, pr.index, fileWriteOk))
    /\ UNCHANGED <<now, ticks, config, companies, companiesFile, started>>

\* time passes
Tick ==
    /\ ticks < MaxTicks
    /\ ticks' = ticks + 1
    /\ now' = now + TickMs
    /\ last' = IdleProc
    /\ UNCHANGED <<config, companies, companiesFile, placesCache, placeIdCache, placePhotoCache,
                   placeDetailsDiskCache, diskFile, photoFiles, procs, started,
                   prefetchRunning>>
    /\ UNCHANGED <<pageVars, formVars>>

(***************************************************************************)
(* Text.  A string is a sequence of characters.  An ASCII character stands *)
(* for itself, TAB and IDSP are the tabulator and the ideographic space,   *)
(* and every other character is named by a token of several letters:       *)
(*   huo 火   guo 锅   ma 麻   la4 辣   tang 烫   chuan4 串   xiang 香   mian 面   *)
(*   guan 馆   la1 拉   niu 牛   rou 肉   lan 兰   zhou 州   dao 刀   xiao 削      *)
(*   mi 米   xian 线   shao 烧   kao 烤   yu2 鱼   zhong 中   can 餐   yin 饮      *)
(*   pin 品   chao 超   shi 市   chuan1 川   cai 菜   yu3 与   fu 服   wu4 务      *)
(*   zi 资   qi3 企   ye 业   qi2 其   ta 他   mo 墨   xi 西   ge 哥               *)
(*   cheng 城   meng 蒙   te 特   lei2 雷   wei4 未   fen 分   lei4 类   gua 瓜    *)
(*   da 达   ha 哈   wang 网   zhan 站   fang 访   ke 客                         *)
(***************************************************************************)
UpperCase == <<"A", "B", "C", "D", "E", "F", "G", "H", "I", "J", "K", "L", "M",
               "N", "O", "P", "Q", "R", "S", "T", "U", "V", "W", "X", "Y", "Z">>
LowerCase == <<"a", "b", "c", "d", "e", "f", "g", "h", "i", "j", "k", "l", "m",
               "n", "o", "p", "q", "r", "s", "t", "u", "v", "w", "x", "y", "z">>
Digits == {"0", "1", "2", "3", "4", "5", "6", "7", "8", "9"}
\* the characters String.prototype.trim removes and \s matches
WhiteSpace == {" ", "TAB", "IDSP"}

LowerOf ==
    [c \in {UpperCase[n] : n \in 1..Len(UpperCase)} |->
        LowerCase[CHOOSE n \in 1..Len(UpperCase) : UpperCase[n] = c]]
toLowerCaseChar(c) == IF c \in DOMAIN LowerOf THEN LowerOf[c] ELSE c
toLowerCase(s) == [n \in 1..Len(s) |-> toLowerCaseChar(s[n])]

RECURSIVE trimStart(_)
trimStart(s) ==
    IF s # << >> /\ Head(s) \in WhiteSpace THEN trimStart(Tail(s)) ELSE s
RECURSIVE trimEnd(_)
trimEnd(s) ==
    IF s # << >> /\ s[Len(s)] \in WhiteSpace
    THEN trimEnd(SubSeq(s, 1, Len(s) - 1)) ELSE s
trim(s) == trimEnd(trimStart(s))

(***************************************************************************)
(* Regular expressions of the form a1|a2|...: every alternative is a       *)
(* sequence of characters in which SpaceStar stands for \s*.               *)
(***************************************************************************)
SpaceStar == "WS*"

\* does alternative pat, from its element k on, match text at position pos
RECURSIVE MatchHere(_, _, _, _)
MatchHere(pat, k, text, pos) ==
    IF k > Len(pat) THEN TRUE
    ELSE IF pat[k] = SpaceStar
         THEN \/ /\ pos <= Len(text)
                 /\ text[pos] \in WhiteSpace
                 /\ MatchHere(pat, k, text, pos + 1)
              \/ MatchHere(pat, k + 1, text, pos)
    ELSE /\ pos <= Len(text)
         /\ toLowerCaseChar(text[pos]) = toLowerCaseChar(pat[k])
         /\ MatchHere(pat, k + 1, text, pos + 1)

\* RegExp.prototype.test of a case-insensitive expression without anchors
RegExpTest(re, text) ==
    \E pos \in 1..(Len(text) + 1) :
       \E a \in 1..Len(re) : MatchHere(re[a], 1, text, pos)

\* /火锅|hot\s*pot|hotpot|麻辣烫|串串香/i
hotpotRe ==
    << <<"huo", "guo">>,
       <<"h", "o", "t", SpaceStar, "p", "o", "t">>,
       <<"h", "o", "t", "p", "o", "t">>,
       <<"ma", "la4", "tang">>,
       <<"chuan4", "chuan4", "xiang">> >>
\* /面馆|拉面|ramen|noodle|noodles|牛肉面|兰州|刀削面|米线/i
noodleRe ==
    << <<"mian", "guan">>,
       <<"la1", "mian">>,
       <<"r", "a", "m", "e", "n">>,
       <<"n", "o", "o", "d", "l", "e">>,
       <<"n", "o", "o", "d", "l", "e", "s">>,
       <<"niu", "rou", "mian">>,
       <<"lan", "zhou">>,
       <<"dao", "xiao", "mian">>,
       <<"mi", "xian">> >>
\* /烧烤|串串|烤肉|bbq|barbecue|烤鱼/i
bbqRe ==
    << <<"shao", "kao">>,
       <<"chuan4", "chuan4">>,
       <<"kao", "rou">>,
       <<"b", "b", "q">>,
       <<"b", "a", "r", "b", "e", "c", "u", "e">>,
       <<"kao", "yu2">> >>
\* /茶|奶茶|饮品|咖啡|coffee|bubble\s*tea/i
drinkRe ==
    << <<"cha2">>,
       <<"nai", "cha2">>,
       <<"yin", "pin">>,
       <<"ka", "fei">>,
       <<"c", "o", "f", "f", "e", "e">>,
       <<"b", "u", "b", "b", "l", "e", SpaceStar, "t", "e", "a">> >>
\* /超市|便利|market|grocery/i
marketRe ==
    << <<"chao", "shi">>,
       <<"bian4", "li4">>,
       <<"m", "a", "r", "k", "e", "t">>,
       <<"g", "r", "o", "c", "e", "r", "y">> >>

Hotpot == <<"huo", "guo">>
Noodle == <<"mian", "guan">>
Bbq == <<"shao", "kao">>
Chinese == <<"zhong", "can">>
Drink == <<"yin", "pin">>
Market == <<"chao", "shi">>
foodIndustry == <<"can", "yin", "yu3", "fu", "wu4">>
\* the last two are the drinks shop and the supermarket
foodCategoryPriority ==
    <<Chinese, Hotpot, Noodle, Bbq, <<"yin", "pin">>,
      <<"chao", "shi">>>>
OtherIndustry == <<"qi2", "ta">>
EnterpriseIndustry == <<"zhong", "zi", "qi3", "ye">>
UnclassifiedCity == <<"wei4", "fen", "lei4", "cheng", "shi">>
MexicoCity == <<"mo", "xi", "ge", "cheng">>
Monterrey == <<"meng", "te", "lei2">>
priorityCities == <<MexicoCity, Monterrey>>

\* the companies that data/companies.json is drawn from
CompanyPool ==
  << [slug |-> "abc", name |-> <<"A", "b", "c", " ", "N", "o", "o", "d", "l", "e", "s">>,
       summary |-> <<"niu", "rou", "mian">>,
       city |-> <<"mo", "xi", "ge", "cheng">>, industry |-> <<"can", "yin", "yu3", "fu", "wu4">>,
       category |-> << >>, placeId |-> "p1", cover |-> << >>],
     [slug |-> "hot", name |-> <<"H", "O", "T", " ", "TAB", "P", "O", "T", " ", "b", "b", "q">>,
       summary |-> << >>,
       city |-> <<"meng", "te", "lei2">>, industry |-> <<"can", "yin", "yu3", "fu", "wu4">>,
       category |-> << >>, placeId |-> "", cover |-> <<"/", "i", "m", "a", "g", "e", "/", "h", "o", "t", ".", "j", "p", "g">>],
     [slug |-> "kao", name |-> <<"chuan4", "chuan4">>,
       summary |-> <<"kao", "yu2">>,
       city |-> <<"gua", "da", "la1", "ha", "la1">>, industry |-> <<"can", "yin", "yu3", "fu", "wu4">>,
       category |-> << >>, placeId |-> "p2", cover |-> << >>],
     [slug |-> "mix", name |-> <<"C", "a", "f", "e">>,
       summary |-> <<"la1", "mian", " ", "huo", "guo">>,
       city |-> << >>, industry |-> <<"can", "yin", "yu3", "fu", "wu4">>,
       category |-> <<" ">>, placeId |-> "", cover |-> <<"a", " ", "b", ".", "j", "p", "g">>],
     [slug |-> "tea", name |-> <<"R", "a", "m", "e", "n">>,
       summary |-> << >>,
       city |-> <<"mo", "xi", "ge", "cheng">>, industry |-> <<"can", "yin", "yu3", "fu", "wu4">>,
       category |-> <<"IDSP", "yin", "pin", " ">>, placeId |-> "", cover |-> << >>],
     [slug |-> "chuan", name |-> <<"mian", " ", "guan">>,
       summary |-> <<"h", "o", "t", "p", "o", " ", "t">>,
       city |-> <<"meng", "te", "lei2">>, industry |-> <<"can", "yin", "yu3", "fu", "wu4">>,
       category |-> <<"chuan1", "cai">>, placeId |-> "", cover |-> << >>],
     [slug |-> "bank", name |-> <<"B", "a", "n", "k">>,
       summary |-> <<"h", "o", "t", "p", "o", "t">>,
       city |-> <<"mo", "xi", "ge", "cheng">>, industry |-> <<"zhong", "zi", "qi3", "ye">>,
       category |-> << >>, placeId |-> "p1", cover |-> << >>],
     [slug |-> "shop", name |-> <<"S", "h", "o", "p">>,
       summary |-> << >>,
       city |-> <<"wei4", "fen", "lei4", "cheng", "shi">>, industry |-> << >>,
       category |-> << >>, placeId |-> "", cover |-> << >>],
     [slug |-> "raw", name |-> <<"T", "e", "a">>,
       summary |-> <<"shao", "kao">>,
       city |-> <<"gua", "da", "la1", "ha", "la1">>, industry |-> <<" ", "can", "yin", "yu3", "fu", "wu4">>,
       category |-> << >>, placeId |-> "", cover |-> << >>] >>

(***************************************************************************)
(* The company directory: buildCompaniesHtml and the pages built on it.    *)
(* The HTML is kept as the tree of the elements the function emits.        *)
(***************************************************************************)
\* value || fallback, on strings
OrElse(value, fallback) == IF value = << >> THEN fallback ELSE value

IndexIn(seq, x) == CHOOSE n \in 1..Len(seq) : seq[n] = x
Has(seq, x) == \E n \in 1..Len(seq) : seq[n] = x

\* the order of first insertion is kept as it is
SortByPriority_Unsorted(order, priority) == order

\* [...order].sort((a, b) => pa !== pb ? pa - pb : index(a) - index(b)),
\* where an entry outside priority has priority Infinity
SortByPriority(order, priority) ==
    LET Before(a, b) ==
           IF Has(priority, a) /\ Has(priority, b) /\ a # b
           THEN IndexIn(priority, a) < IndexIn(priority, b)
           ELSE IF Has(priority, a) # Has(priority, b) THEN Has(priority, a)
           ELSE IndexIn(order, a) < IndexIn(order, b)
        Rank(a) == Cardinality({n \in 1..Len(order) : Before(order[n], a)})
    IN [k \in 1..Len(order) |->
           order[CHOOSE n \in 1..Len(order) : Rank(order[n]) = k - 1]]

\* the same priorities with the noodle shop tested before the hot pot
classifyFoodCategory_NoodleFirst(company) ==
    LET existing == trim(company.category)
        text == toLowerCase(company.name \o <<" ">> \o company.summary)
    IN IF existing # << >> THEN existing
       ELSE IF RegExpTest(noodleRe, text) THEN Noodle
       ELSE IF RegExpTest(hotpotRe, text) THEN Hotpot
       ELSE IF RegExpTest(bbqRe, text) THEN Bbq
       ELSE Chinese

classifyFoodCategory(company) ==
    LET existing == trim(company.category)
        text == toLowerCase(company.name \o <<" ">> \o company.summary)
    IN IF existing # << >> THEN existing
       ELSE IF RegExpTest(hotpotRe, text) THEN Hotpot
       ELSE IF RegExpTest(noodleRe, text) THEN Noodle
       ELSE IF RegExpTest(bbqRe, text) THEN Bbq
       ELSE Chinese

classifyFoodCategoryForDirectory(company) ==
    LET existing == trim(company.category)
        text == toLowerCase(company.name \o <<" ">> \o company.summary)
    IN IF existing # << >> THEN existing
       ELSE IF RegExpTest(hotpotRe, text) THEN Hotpot
       ELSE IF RegExpTest(noodleRe, text) THEN Noodle
       ELSE IF RegExpTest(bbqRe, text) THEN Bbq
       ELSE IF RegExpTest(drinkRe, text) THEN Drink
       ELSE IF RegExpTest(marketRe, text) THEN Market
       ELSE Chinese

\* /^[-a-zA-Z0-9_.\/:]+$/
CoverChars ==
    {"-", "_", ".", "/", ":"} \cup Digits
       \cup {UpperCase[n] : n \in 1..Len(UpperCase)}
       \cup {LowerCase[n] : n \in 1..Len(LowerCase)}

NoUrl == [kind |-> "none"]
sanitizeCover(value) ==
    LET raw == trim(value)
    IN IF raw = << >> THEN NoUrl
       ELSE IF \E n \in 1..Len(raw) : raw[n] \notin CoverChars THEN NoUrl
       ELSE [kind |-> "cover", text |-> raw]

\* /image/place-photos/<file> when the file exists, else /api/place-photo/<id>
buildPlacePhotoUrl(placeId, index) ==
    IF getLocalPlacePhoto([pfiles |-> photoFiles], placeId, index)
    THEN [kind |-> "local", file |-> LocalPhotoName(placeId, index)]
    ELSE IF ~isPlacesApiEnabled THEN NoUrl
    ELSE IF placeId = "" THEN NoUrl
    ELSE [kind |-> "api", placeId |-> placeId, index |-> IF index > 0 THEN index ELSE 0]

resolveCompanyCoverUrl(company, placeId) ==
    LET explicitCover == sanitizeCover(company.cover)
    IN IF explicitCover # NoUrl THEN explicitCover
       ELSE IF getLocalPlacePhoto([pfiles |-> photoFiles], placeId, 0)
            THEN [kind |-> "local", file |-> LocalPhotoName(placeId, 0)]
       ELSE buildPlacePhotoUrl(placeId, 0)

isRestaurantCompany(company) == trim(company.industry) = foodIndustry
isEnterpriseCompany(company) == trim(company.industry) = EnterpriseIndustry

\* options.filter: none, isRestaurantCompany or isEnterpriseCompany
ApplyFilter(filter, all) ==
    IF filter = "restaurant" THEN SelectSeq(all, isRestaurantCompany)
    ELSE IF filter = "enterprise" THEN SelectSeq(all, isEnterpriseCompany)
    ELSE all

EmptyString == [kind |-> "empty"]
\* res.send of a string that is no page
PlainText(message) == [kind |-> "text", text |-> message]

\* one <a class="company-card">; src is the position of the company in the
\* list
renderCompanyCard(list, n) ==
    LET company == list[n]
        industry == trim(company.industry)
    IN [src |-> n,
        slug |-> company.slug,
        name |-> company.name,
        cover |-> resolveCompanyCoverUrl(company, company.placeId),
        industry |-> industry,
        category |-> IF industry = foodIndustry
                     THEN classifyFoodCategory(company) ELSE << >>]

\* a slug gets one card, however many items carry it
renderCompanyCards_UniqueSlug(list, items) ==
    LET keep == SortedSeq({k \in 1..Len(items) :
                             \A j \in 1..(k - 1) :
                                list[items[j]].slug # list[items[k]].slug})
    IN [k \in 1..Len(keep) |-> renderCompanyCard(list, items[keep[k]])]

renderCompanyCards(list, items) ==
    [k \in 1..Len(items) |-> renderCompanyCard(list, items[k])]


buildCityToolsHtml(list, foodItems, industryOrder) ==
    LET present == {classifyFoodCategory(list[n]) : n \in foodItems}
    IN [categories |-> SelectSeq(foodCategoryPriority, LAMBDA c : c \in present),
        industries |-> SelectSeq(industryOrder, LAMBDA i : i # foodIndustry)]

buildCompaniesHtml(template, filter) ==
    IF template = NoTemplate THEN EmptyString
    ELSE
      LET list == ApplyFilter(filter, loadCompaniesData)
          all  == 1..Len(list)
      IN
      IF Len(list) = 0
      THEN [kind |-> "html", list |-> list, nav |-> << >>, sections |-> << >>,
            placeholder |-> TRUE]
      ELSE
        LET cityOf == [n \in all |-> OrElse(list[n].city, UnclassifiedCity)]
            industryOf == [n \in all |-> OrElse(list[n].industry, OtherIndustry)]
            cityOrder == InsertionOrder(cityOf, all)
            orderedCities == SortByPriority(cityOrder, priorityCities)
            InCity(city) == {n \in all : cityOf[n] = city}
            totalCount == Len(list)
            Subgroups(items) ==
               LET categoryOf == [n \in items |->
                                    OrElse(classifyFoodCategory(list[n]), OtherIndustry)]
                   categoryOrder == InsertionOrder(categoryOf, items)
                   orderedCategories == SortByPriority(categoryOrder,
                                                       foodCategoryPriority)
               IN [k \in 1..Len(orderedCategories) |->
                     LET categoryItems ==
                            SortedSeq({n \in items :
                                         categoryOf[n] = orderedCategories[k]})
                     IN [category |-> orderedCategories[k],
                         count |-> Len(categoryItems),
                         cards |-> renderCompanyCards(list, categoryItems)]]
            Block(city, industry) ==
               LET items == {n \in InCity(city) : industryOf[n] = industry}
               IN IF industry = foodIndustry
                  THEN [industry |-> industry, count |-> Cardinality(items),
                        food |-> TRUE, subgroups |-> Subgroups(items),
                        cards |-> << >>]
                  ELSE [industry |-> industry, count |-> Cardinality(items),
                        food |-> FALSE, subgroups |-> << >>,
                        cards |-> renderCompanyCards(list, SortedSeq(items))]
            Section(city) ==
               LET industryOrder == InsertionOrder(industryOf, InCity(city))
               IN [city |-> city,
                   tools |-> buildCityToolsHtml(
                                list,
                                {n \in InCity(city) : industryOf[n] = foodIndustry},
                                industryOrder),
                   industries |-> [k \in 1..Len(industryOrder) |->
                                      Block(city, industryOrder[k])]]
        IN [kind |-> "html", list |-> list,
            nav |-> <<[city |-> <<"a", "l", "l">>, count |-> totalCount]>> \o
                    [k \in 1..Len(orderedCities) |->
                        [city |-> orderedCities[k],
                         count |-> Cardinality(InCity(orderedCities[k]))]],
            sections |-> [k \in 1..Len(orderedCities) |-> Section(orderedCities[k])],
            placeholder |-> FALSE]

\* the items of window.__DIRECTORY_DATA__; src is the position of the company
\* in data/companies.json
buildDirectoryDataScript ==
    LET list == loadCompaniesData
        kept == SelectSeq([n \in 1..Len(list) |-> n],
                          LAMBDA n : list[n].slug # "" /\ list[n].name # << >>)
    IN [k \in 1..Len(kept) |->
          LET company == list[kept[k]]
              industry == OrElse(trim(company.industry), OtherIndustry)
          IN [src |-> kept[k],
              slug |-> company.slug,
              name |-> trim(company.name),
              summary |-> trim(company.summary),
              cover |-> resolveCompanyCoverUrl(company, company.placeId),
              city |-> trim(OrElse(company.city, UnclassifiedCity)),
              industry |-> industry,
              category |-> IF industry = foodIndustry
                           THEN classifyFoodCategoryForDirectory(company)
                           ELSE << >>]]

\* options.dataScript || ''
NoScript == << >>
NoPage == [route |-> "", status |-> 0, html |-> EmptyString, data |-> NoScript]

\* renderPage(fileName, options): the page with <!--COMPANIES--> and
\* <!--DATA--> replaced
renderPage(route, dataScript) ==
    [route |-> route, status |-> 200,
     html |-> buildCompaniesHtml(templates.companiesTemplate, "none"),
     data |-> dataScript]

renderRestaurantsPage ==
    IF ~templates.pageTemplates \/ templates.restaurantsTemplate = NoTemplate
    THEN EmptyString
    ELSE buildCompaniesHtml(templates.restaurantsTemplate, "restaurant")

renderEnterprisesPage ==
    IF ~templates.pageTemplates \/ templates.enterprisesTemplate = NoTemplate
    THEN EmptyString
    ELSE buildCompaniesHtml(templates.enterprisesTemplate, "enterprise")

\* only the page template is required
renderDirectoryPage_PageTemplateOnly(dataScript) ==
    IF ~templates.pageTemplates
    THEN EmptyString
    ELSE [kind |-> "directory", data |-> dataScript]

\* renderDirectoryPage(dataScript): the directory page carries the partial
\* as it is and the data script; the cards are drawn in the browser
renderDirectoryPage(dataScript) ==
    IF ~templates.pageTemplates \/ templates.directoryTemplate = NoTemplate
    THEN EmptyString
    ELSE [kind |-> "directory", data |-> dataScript]

\* GET /directory
GetDirectory ==
    /\ page' = LET html == renderDirectoryPage(buildDirectoryDataScript)
               IN IF html = EmptyString
                  THEN [route |-> "/directory", status |-> 500,
                        html |-> PlainText("Directory template missing"),
                        data |-> NoScript]
                  ELSE [route |-> "/directory", status |-> 200, html |-> html,
                        data |-> html.data]
    /\ UNCHANGED <<placesVars, templates, formVars>>

\* GET /
GetHome ==
    /\ page' = renderPage("/", buildDirectoryDataScript)
    /\ UNCHANGED <<placesVars, templates, formVars>>

\* GET /companies
GetCompanies ==
    /\ page' = renderPage("/companies", NoScript)
    /\ UNCHANGED <<placesVars, templates, formVars>>

\* GET /restaurants
GetRestaurants ==
    /\ page' = LET html == renderRestaurantsPage
               IN IF html = EmptyString
                  THEN [route |-> "/restaurants", status |-> 500,
                        html |-> PlainText("Restaurants template missing"),
                        data |-> NoScript]
                  ELSE [route |-> "/restaurants", status |-> 200, html |-> html,
                        data |-> NoScript]
    /\ UNCHANGED <<placesVars, templates, formVars>>

\* GET /enterprises
GetEnterprises ==
    /\ page' = LET html == renderEnterprisesPage
               IN IF html = EmptyString
                  THEN [route |-> "/enterprises", status |-> 500,
                        html |-> PlainText("Enterprises template missing"),
                        data |-> NoScript]
                  ELSE [route |-> "/enterprises", status |-> 200, html |-> html,
                        data |-> NoScript]
    /\ UNCHANGED <<placesVars, templates, formVars>>

(***************************************************************************)
(* The contact form: POST /api/submit and GET /api/submissions.            *)
(***************************************************************************)
\* a field of req.body or req.query: absent, a string, or a JSON number
Undefined == [kind |-> "undefined"]
Str(s) == [kind |-> "string", text |-> s]
NumberValue == [kind |-> "number"]

\* '网站访客'
VisitorLabel == <<"wang", "zhan", "fang", "ke">>

\* the bodies posted to /api/submit
Bodies ==
  { [name |-> Undefined, email |-> Undefined,
       contact |-> Str(<<"+", "5", "2", "1", "2", "3">>), city |-> Str(<<"C", "D", "M", "X">>)],
    [name |-> Undefined, email |-> Undefined,
       contact |-> Undefined, city |-> Undefined],
    [name |-> Undefined, email |-> Undefined,
       contact |-> Str(<<" ", "TAB">>), city |-> Undefined],
    [name |-> Str(<<" ", "L", "i", " ">>), email |-> Str(<<" ", "a", "@", "b", ".", "c", " ">>),
       contact |-> Str(<<" ", "w", "x", "1", " ">>), city |-> Undefined],
    [name |-> Undefined, email |-> Str(<<" ", "a", "@", "b", ".", "c", " ">>),
       contact |-> Undefined, city |-> Undefined],
    [name |-> Str(<<" ", "L", "i", " ">>), email |-> Str(<< >>),
       contact |-> Str(<<"+", "5", "2", "1", "2", "3">>), city |-> Undefined],
    [name |-> Undefined, email |-> Undefined,
       contact |-> NumberValue, city |-> Undefined] }

\* the values of ?limit=
Limits ==
  { Undefined,
    Str(<<"0">>),
    Str(<<"-", "1">>),
    Str(<<"a", "b", "c">>),
    Str(<<"6", "0", "0">>),
    Str(<<"2">>),
    Str(<<" ", "7", "x">>),
    Str(<<"5", "0", "0">>),
    Str(<<"-", "0">>),
    Str(<<"+", "3">>) }

\* the value is taken as it is, white space included
OrEmptyTrim_NoTrim(value) ==
    IF value.kind = "undefined" THEN [threw |-> FALSE, text |-> << >>]
    ELSE IF value.kind = "string" THEN [threw |-> FALSE, text |-> value.text]
    ELSE [threw |-> TRUE, text |-> << >>]

\* (value || '').trim(); calling trim on a number throws a TypeError
OrEmptyTrim(value) ==
    IF value.kind = "undefined" THEN [threw |-> FALSE, text |-> << >>]
    ELSE IF value.kind = "string" THEN [threw |-> FALSE, text |-> trim(value.text)]
    ELSE [threw |-> TRUE, text |-> << >>]

NoReply == [route |-> "", status |-> 0, ok |-> FALSE, message |-> "", id |-> 0,
            data |-> << >>, mirrors |-> {}, body |-> Undefined, limit |-> Undefined,
            rowsBefore |-> 0, insertOk |-> TRUE]

Reply(route, status, ok, message) ==
    [NoReply EXCEPT !.route = route, !.status = status, !.ok = ok,
                    !.message = message]

\* the id an AUTOINCREMENT key gives the next row
lastID(rows) == IF rows = << >> THEN 1 ELSE rows[Len(rows)].id + 1

\* the messages are written in pinyin: 'que shao lian xi fang shi' (contact
\* details are missing), 'cun chu shi bai' (storing failed) and
\* 'du qu shi bai' (reading failed)
MissingContactMessage == "que shao lian xi fang shi"

\* the name is stored as it was given, without the visitor label
safeNameOf_AsGiven(name, safeContact) == name

\* (name || '').trim() || (safeContact ? label : '')
safeNameOf(name, safeContact) ==
    IF name # << >> THEN name
    ELSE IF safeContact # << >> THEN VisitorLabel ELSE << >>

\* (email || '').trim() || safeContact
safeEmailOf(email, safeContact) == IF email # << >> THEN email ELSE safeContact

\* the mirrors are started before the insert has answered
submit_MirrorsBeforeInsert(rows, body, insertOk) ==
    LET contact == OrEmptyTrim(body.contact)
        name == OrEmptyTrim(body.name)
        email == OrEmptyTrim(body.email)
        safeContact == contact.text
        safeName == safeNameOf(name.text, safeContact)
        safeEmail == safeEmailOf(email.text, safeContact)
        row == [id |-> lastID(rows), name |-> safeName, email |-> safeEmail,
                city |-> body.city, contact |-> safeContact, created_at |-> now]
    IN IF contact.threw \/ name.threw \/ email.threw
       THEN [rows |-> rows, reply |-> Reply("/api/submit", 500, FALSE, "TypeError")]
       ELSE IF safeEmail = << >>
       THEN [rows |-> rows,
             reply |-> Reply("/api/submit", 400, FALSE, MissingContactMessage)]
       ELSE IF ~insertOk
       THEN [rows |-> rows,
             reply |-> [Reply("/api/submit", 500, FALSE, "cun chu shi bai") EXCEPT
                           !.id = row.id, !.mirrors = {"sheet", "feishu"}]]
       ELSE [rows |-> Append(rows, row),
             reply |-> [Reply("/api/submit", 200, TRUE, "") EXCEPT
                           !.id = row.id, !.mirrors = {"sheet", "feishu"}]]

\* app.post('/api/submit'): the rows and the response after the request;
\* mirrors are the functions called with the new row
submit(rows, body, insertOk) ==
    LET contact == OrEmptyTrim(body.contact)
        name == OrEmptyTrim(body.name)
        email == OrEmptyTrim(body.email)
        safeContact == contact.text
        safeName == safeNameOf(name.text, safeContact)
        safeEmail == safeEmailOf(email.text, safeContact)
        row == [id |-> lastID(rows), name |-> safeName, email |-> safeEmail,
                city |-> body.city, contact |-> safeContact, created_at |-> now]
    IN IF contact.threw \/ name.threw \/ email.threw
       THEN [rows |-> rows, reply |-> Reply("/api/submit", 500, FALSE, "TypeError")]
       ELSE IF safeEmail = << >>
       THEN [rows |-> rows,
             reply |-> Reply("/api/submit", 400, FALSE, MissingContactMessage)]
       ELSE IF ~insertOk
       THEN [rows |-> rows,
             reply |-> Reply("/api/submit", 500, FALSE, "cun chu shi bai")]
       ELSE [rows |-> Append(rows, row),
             reply |-> [Reply("/api/submit", 200, TRUE, "") EXCEPT
                           !.id = row.id, !.mirrors = {"sheet", "feishu"}]]

NaN == [nan |-> TRUE, value |-> 0]
Num(n) == [nan |-> FALSE, value |-> n]

DigitValue(c) == CHOOSE d \in 0..9 : <<"0", "1", "2", "3", "4", "5", "6", "7", "8", "9">>[d + 1] = c

\* the number the leading digits of s denote, after the digits read so far
RECURSIVE ParseDigits(_, _)
ParseDigits(s, acc) ==
    IF s # << >> /\ Head(s) \in Digits
    THEN ParseDigits(Tail(s), acc * 10 + DigitValue(Head(s)))
    ELSE acc

\* parseInt(value, 10)
parseInt(value) ==
    IF value.kind # "string" THEN NaN
    ELSE LET s == trimStart(value.text)
             negative == s # << >> /\ Head(s) = "-"
             rest == IF s # << >> /\ Head(s) \in {"-", "+"} THEN Tail(s) ELSE s
         IN IF rest = << >> \/ Head(rest) \notin Digits THEN NaN
            ELSE IF negative THEN Num(0 - ParseDigits(rest, 0))
            ELSE Num(ParseDigits(rest, 0))

Min(a, b) == IF a < b THEN a ELSE b

DefaultLimit == 100
MaxLimit == 500

\* Math.min(parseInt(req.query.limit, 10) || 100, 500)
queryLimit(value) ==
    LET n == parseInt(value)
    IN Min(IF n.nan \/ n.value = 0 THEN DefaultLimit ELSE n.value, MaxLimit)

HasTies(rows) ==
    \E k \in 1..(Len(rows) - 1) : rows[k].created_at = rows[k + 1].created_at

\* the first and the last row of the run of rows created in the same second
\* as row k
RECURSIVE RunFirst(_, _)
RunFirst(rows, k) ==
    IF k > 1 /\ rows[k - 1].created_at = rows[k].created_at
    THEN RunFirst(rows, k - 1) ELSE k
RECURSIVE RunLast(_, _)
RunLast(rows, k) ==
    IF k < Len(rows) /\ rows[k + 1].created_at = rows[k].created_at
    THEN RunLast(rows, k + 1) ELSE k

\* ORDER BY datetime(created_at) DESC over rows kept in the order of their
\* insertion (created_at never decreases); rows of the same second come in
\* the order of their ids (tieAsc) or in the opposite order
orderByCreatedAtDesc(rows, tieAsc) ==
    LET n == Len(rows)
    IN [p \in 1..n |->
          LET r == n + 1 - p
          IN IF tieAsc THEN rows[RunFirst(rows, r) + RunLast(rows, r) - r]
             ELSE rows[r]]

\* LIMIT ?: a negative limit is no limit
sqlLimit(rows, limit) ==
    IF limit < 0 \/ limit >= Len(rows) THEN rows ELSE SubSeq(rows, 1, limit)

\* app.get('/api/submissions')
submissions(rows, value, readOk, tieAsc) ==
    LET limit == queryLimit(value)
    IN IF ~readOk THEN Reply("/api/submissions", 500, FALSE, "du qu shi bai")
       ELSE [Reply("/api/submissions", 200, TRUE, "") EXCEPT
                !.data = sqlLimit(orderByCreatedAtDesc(rows, tieAsc), limit)]

\* a call of appendToSheet or appendToFeishu for the row with this id:
\* pending, or returned without a request because the mirror is not
\* configured (off), or after the request succeeded (ok), or after it failed
\* and the error was logged (failed)
MirrorCall(mirror, id, state) == [mirror |-> mirror, id |-> id, state |-> state]
MirrorOutcomes == {"off", "ok", "failed"}

PostSubmit(body, insertOk) ==
    /\ started < MaxSubmits
    /\ started' = started + 1
    /\ submit(db, body, TRUE).reply.status # 200 => insertOk
    /\ LET r == submit(db, body, insertOk)
       IN /\ db' = r.rows
          /\ reply' = [r.reply EXCEPT !.body = body, !.rowsBefore = Len(db),
                                      !.insertOk = insertOk]
          /\ mirrorCalls' = mirrorCalls \cup
                               {MirrorCall(m, r.reply.id, "pending") :
                                  m \in r.reply.mirrors}
    /\ UNCHANGED <<now, ticks, config, companies, companiesFile, placesCache, placeIdCache,
                   placePhotoCache, placeDetailsDiskCache, diskFile, photoFiles,
                   procs, last, prefetchRunning>>
    /\ UNCHANGED <<pageVars, forumVars>>

\* appendToSheet and appendToFeishu return
MirrorSettles(call, outcome) ==
    /\ call \in mirrorCalls
    /\ call.state = "pending"
    /\ mirrorCalls' = (mirrorCalls \ {call})
                         \cup {MirrorCall(call.mirror, call.id, outcome)}
    /\ UNCHANGED <<placesVars, pageVars, db, reply, forumVars>>

GetSubmissions(value, readOk, tieAsc) ==
    /\ tieAsc => HasTies(db) /\ readOk
    /\ ~readOk => value = Undefined
    /\ reply' = [submissions(db, value, readOk, tieAsc) EXCEPT !.limit = value]
    /\ UNCHANGED <<placesVars, pageVars, db, mirrorCalls, forumVars>>

(***************************************************************************)
(* POST /api/forum-posts and its rate limiter.                             *)
(***************************************************************************)
FORUM_RATE_LIMIT_WINDOW_MS == 600000
FORUM_RATE_LIMIT_MAX == 4
FORUM_MIN_INTERVAL_MS == 25000

\* String(ip || 'unknown')
ForumKeys == {"unknown", "ip1"}
NoLimit == [count |-> 0, resetAt |-> 0, lastAt |-> 0, present |-> FALSE]
\* no request to the forum has been made
NoForum ==
    /\ forumRateLimits = [k \in ForumKeys |-> NoLimit]
    /\ forumPosts = << >>
    /\ accepted = [k \in ForumKeys |-> << >>]

\* the entry of the key after the window check; an entry taken from the
\* map is changed in place
WindowChecked(limits, key) ==
    LET entry == IF limits[key].present THEN limits[key]
                 ELSE [NoLimit EXCEPT !.resetAt = now + FORUM_RATE_LIMIT_WINDOW_MS]
    IN IF now > entry.resetAt
       THEN [entry EXCEPT !.count = 0,
                          !.resetAt = now + FORUM_RATE_LIMIT_WINDOW_MS,
                          !.lastAt = 0]
       ELSE entry

\* the fifth post of a window is accepted as well
checkForumRateLimit_NoMax(limits, ip) ==
    LET key == IF ip = "" THEN "unknown" ELSE ip
        entry == WindowChecked(limits, key)
        kept == IF limits[key].present THEN [limits EXCEPT ![key] = entry]
                ELSE limits
    IN IF now - entry.lastAt < FORUM_MIN_INTERVAL_MS
       THEN [ok |-> FALSE, reason |-> "too_fast",
             retryIn |-> FORUM_MIN_INTERVAL_MS - (now - entry.lastAt),
             limits |-> kept]
       ELSE [ok |-> TRUE, reason |-> "", retryIn |-> 0,
             limits |-> [limits EXCEPT ![key] =
                            [entry EXCEPT !.count = @ + 1, !.lastAt = now,
                                          !.present = TRUE]]]

checkForumRateLimit(limits, ip) ==
    LET key == IF ip = "" THEN "unknown" ELSE ip
        entry == WindowChecked(limits, key)
        kept == IF limits[key].present THEN [limits EXCEPT ![key] = entry]
                ELSE limits
    IN IF now - entry.lastAt < FORUM_MIN_INTERVAL_MS
       THEN [ok |-> FALSE, reason |-> "too_fast",
             retryIn |-> FORUM_MIN_INTERVAL_MS - (now - entry.lastAt),
             limits |-> kept]
       ELSE IF entry.count >= FORUM_RATE_LIMIT_MAX
       THEN [ok |-> FALSE, reason |-> "rate_limited",
             retryIn |-> entry.resetAt - now, limits |-> kept]
       ELSE [ok |-> TRUE, reason |-> "", retryIn |-> 0,
             limits |-> [limits EXCEPT ![key] =
                            [entry EXCEPT !.count = @ + 1, !.lastAt = now,
                                          !.present = TRUE]]]

\* String(value || '').trim() of a field that is a string or is missing
StringTrim(value) == IF value.kind = "string" THEN trim(value.text) ELSE << >>

\* Math.max(1, Math.ceil((retryIn || 1000) / 1000))
retrySeconds(retryIn) ==
    LET ms == IF retryIn = 0 THEN 1000 ELSE retryIn
        ceil == (ms + 999) \div 1000
    IN IF ceil < 1 THEN 1 ELSE ceil

ForumReply(status, ok, message, stage) ==
    [route |-> "/api/forum-posts", status |-> status, ok |-> ok,
     message |-> message, id |-> 0, retry |-> 0, stage |-> stage, ip |-> ""]

\* the handler; stage is the statement at which it answers
forumPost(limits, posts, ip, body, insertOk) ==
    LET rate == checkForumRateLimit(limits, ip)
        title == StringTrim(body.title)
        content == StringTrim(body.content)
    IN IF StringTrim(body.website) # << >>
       THEN [limits |-> limits, posts |-> posts, rateOk |-> FALSE,
             reply |-> ForumReply(400, FALSE, "ti jiao shi bai", "honeypot")]
       ELSE IF ~rate.ok
       THEN [limits |-> rate.limits, posts |-> posts, rateOk |-> FALSE,
             reply |-> [ForumReply(429, FALSE, "fa bu tai pin fan", rate.reason)
                           EXCEPT !.retry = retrySeconds(rate.retryIn)]]
       ELSE IF Len(title) < 2 \/ Len(title) > 80
       THEN [limits |-> rate.limits, posts |-> posts, rateOk |-> TRUE,
             reply |-> ForumReply(400, FALSE, "biao ti xu yao 2-80 ge zi", "title")]
       ELSE IF Len(content) < 10 \/ Len(content) > 2000
       THEN [limits |-> rate.limits, posts |-> posts, rateOk |-> TRUE,
             reply |-> ForumReply(400, FALSE, "nei rong xu yao 10-2000 ge zi",
                                  "content")]
       ELSE IF ~insertOk
       THEN [limits |-> rate.limits, posts |-> posts, rateOk |-> TRUE,
             reply |-> ForumReply(500, FALSE, "cun chu shi bai", "insert")]
       ELSE [limits |-> rate.limits,
             posts |-> Append(posts, [id |-> Len(posts) + 1, title |-> title,
                                      content |-> content, ip |-> ip]),
             rateOk |-> TRUE,
             reply |-> [ForumReply(200, TRUE, "", "insert")
                           EXCEPT !.id = Len(posts) + 1]]

PostForum(ip, body, insertOk) ==
    /\ started < MaxPosts
    /\ started' = started + 1
    /\ forumPost(forumRateLimits, forumPosts, ip, body, TRUE).reply.status # 200
          => insertOk
    /\ LET r == forumPost(forumRateLimits, forumPosts, ip, body, insertOk)
           key == IF ip = "" THEN "unknown" ELSE ip
       IN /\ forumRateLimits' = r.limits
          /\ forumPosts' = r.posts
          /\ reply' = [r.reply EXCEPT !.ip = key]
          /\ accepted' = IF r.rateOk
                         THEN [accepted EXCEPT ![key] = Append(@, now)]
                         ELSE accepted
    /\ UNCHANGED <<now, ticks, config, companies, companiesFile, placesCache, placeIdCache,
                   placePhotoCache, placeDetailsDiskCache, diskFile, photoFiles,
                   procs, last, prefetchRunning>>
    /\ UNCHANGED <<pageVars, db, mirrorCalls>>

\* time passes between two requests
ForumWait(delay) ==
    /\ ticks < MaxWaits
    /\ ticks' = ticks + 1
    /\ now' = now + delay
    /\ UNCHANGED <<config, companies, companiesFile, placesCache, placeIdCache, placePhotoCache,
                   placeDetailsDiskCache, diskFile, photoFiles, procs, last, started,
                   prefetchRunning>>
    /\ UNCHANGED <<pageVars, formVars>>

(***************************************************************************)
(* The company page: renderCompanyPage.                                    *)
(***************************************************************************)
Bool(b) == [kind |-> "boolean", value |-> b]
\* Boolean(value) of a field of a company
Truthy(value) ==
    \/ value.kind = "boolean" /\ value.value
    \/ value.kind = "string" /\ value.text # << >>

\* String.prototype.replace of the five characters, one after the other
EscapeOf(c) ==
    IF c = "&" THEN <<"&", "a", "m", "p", ";">>
    ELSE IF c = "<" THEN <<"&", "l", "t", ";">>
    ELSE IF c = ">" THEN <<"&", "g", "t", ";">>
    ELSE IF c = "\"" THEN <<"&", "q", "u", "o", "t", ";">>
    ELSE IF c = "'" THEN <<"&", "#", "3", "9", ";">>
    ELSE <<c>>
RECURSIVE escapeHtml(_)
escapeHtml(value) ==
    IF value = << >> THEN << >>
    ELSE EscapeOf(Head(value)) \o escapeHtml(Tail(value))

HasPrefix(s, prefix) ==
    Len(s) >= Len(prefix) /\ SubSeq(s, 1, Len(prefix)) = prefix
\* /^https?:\/\/[^\s"'<>]+$/i
IsHttpUrl(raw) ==
    LET lower == toLowerCase(raw)
        http == <<"h", "t", "t", "p", ":", "/", "/">>
        https == <<"h", "t", "t", "p", "s", ":", "/", "/">>
        Rest(n) == SubSeq(raw, n + 1, Len(raw))
        Allowed(rest) ==
            /\ rest # << >>
            /\ \A k \in 1..Len(rest) :
                  rest[k] \notin WhiteSpace \cup {"\"", "'", "<", ">"}
    IN \/ HasPrefix(lower, http) /\ Allowed(Rest(Len(http)))
       \/ HasPrefix(lower, https) /\ Allowed(Rest(Len(https)))

sanitizeUrl(value) ==
    LET raw == trim(value)
    IN IF raw = << >> THEN << >>
       ELSE IF ~IsHttpUrl(raw) THEN << >>
       ELSE raw

\* /未提供|暂无/i
noContactRe == << <<"wei4", "ti", "gong">>, <<"zan", "wu2">> >>
\* '该企业未开通详情展示，如需展示请联系站长。'
LockedMessage == <<"gai", "qi3", "ye", "wei4", "kai", "tong", "xiang2", "qing">>

\* a field of placeData, or '' when there is no place data
PlaceField(placeData, field) ==
    IF placeData = Null THEN << >> ELSE placeData[field]

\* the detail of the company is shown whatever detailPaid says
detailSection_Unlocked(company) ==
    [locked |-> FALSE, text |-> escapeHtml(company.detail)]

\* detailHtml
detailSection(company) ==
    LET detailEnabled == company.detail # << >> /\ Truthy(company.detailPaid)
    IN IF detailEnabled
       THEN [locked |-> FALSE, text |-> escapeHtml(company.detail)]
       ELSE [locked |-> TRUE, text |-> LockedMessage]

\* the page that renderCompanyPage(company) builds from the place data that
\* getCompanyPlaceData returned: the buttons of the action card, the detail
\* section and the pills of the action bar
renderCompanyPage(company, placeData) ==
    LET contactValue == trim(company.contact)
        placePhone == OrElse(PlaceField(placeData, "formatted_phone_number"),
                             company.phone)
        placeWebsite == sanitizeUrl(OrElse(PlaceField(placeData, "website"),
                                           company.website))
        safePlaceUrl == sanitizeUrl(PlaceField(placeData, "url"))
        safeMapLink ==
            OrElse(sanitizeUrl(OrElse(company.mapLink,
                                      OrElse(company.mapUrl, company.map))),
                   safePlaceUrl)
        hasContact == contactValue # << >> /\ ~RegExpTest(noContactRe, contactValue)
        primaryAction == IF safeMapLink # << >> THEN "map"
                         ELSE IF placeWebsite # << >> THEN "website" ELSE ""
    IN [kind |-> "company",
        actionButtons |->
            (IF placeWebsite # << >>
             THEN <<[button |-> "website", primary |-> primaryAction = "website",
                     href |-> placeWebsite]>>
             ELSE << >>)
            \o (IF safeMapLink # << >>
                THEN <<[button |-> "map", primary |-> primaryAction = "map",
                        href |-> safeMapLink]>>
                ELSE << >>)
            \o (IF hasContact
                THEN <<[button |-> "copy", primary |-> FALSE,
                        href |-> contactValue]>>
                ELSE << >>),
        phone |-> placePhone,
        detail |-> detailSection(company),
        actionBar |->
            <<[pill |-> "dial", primary |-> placePhone # << >>,
               enabled |-> placePhone # << >>],
              [pill |-> "map", primary |-> FALSE, enabled |-> safeMapLink # << >>],
              [pill |-> "share", primary |-> FALSE, enabled |-> TRUE],
              [pill |-> "favorite", primary |-> FALSE, enabled |-> TRUE]>>]

(***************************************************************************)
(* Specifications.                                                         *)
(***************************************************************************)
StoredPlace(p, ver) == RawPlace(p, PlaceName(p), ver, Refs(ver, HttpRef))
\* what the process finds on disk when it starts: place-details.json and
\* the files of image/place-photos
InitFiles ==
    { [file |-> MissingFile, pfiles |-> {}],
      [file |-> [valid |-> TRUE,
                 map |-> [EmptyMap EXCEPT !["p1"] = StoredPlace("p1", 2)]],
       pfiles |-> {<<"p1", 0>>}],
      [file |-> [valid |-> TRUE, map |-> [p \in PlaceIds |-> StoredPlace(p, 1)]],
       pfiles |-> {}] }

AllTemplates ==
    [pageTemplates |-> TRUE, companiesTemplate |-> Template,
     restaurantsTemplate |-> Template, enterprisesTemplate |-> Template,
     directoryTemplate |-> Template, companyTemplate |-> Template]
\* partials/enterprises.html is missing; all partials and pages are missing
InitTemplates ==
    << AllTemplates,
       [AllTemplates EXCEPT !.enterprisesTemplate = NoTemplate],
       [pageTemplates |-> FALSE, companiesTemplate |-> NoTemplate,
        restaurantsTemplate |-> NoTemplate, enterprisesTemplate |-> NoTemplate,
        directoryTemplate |-> NoTemplate, companyTemplate |-> NoTemplate] >>

InitPlaces ==
    /\ now = 0
    /\ ticks = 0
    /\ config \in Configs
    /\ companies = PlacesCompanies
    /\ companiesFile = "valid"
    /\ placesCache = EmptyCache(PlaceIds)
    /\ placeIdCache = EmptyCache(Queries)
    /\ placePhotoCache = EmptyCache(PhotoKeys)
    /\ placeDetailsDiskCache = NotLoaded
    /\ \E f \in InitFiles : diskFile = f.file /\ photoFiles = f.pfiles
    /\ procs = [i \in Slots |-> IdleProc]
    /\ last = IdleProc
    /\ started = 0
    /\ prefetchRunning = FALSE
    /\ templates = AllTemplates
    /\ page = NoPage
    /\ db = << >>
    /\ reply = NoReply
    /\ mirrorCalls = {}
    /\ NoForum

\* the places whose photo is requested
PhotoPlaceIds == {"p1"}

\* the photo route with the Google provider, no cache file and no photo file
InitPhoto ==
    /\ InitPlaces
    /\ config.PLACES_PROVIDER = "google"
    /\ diskFile = MissingFile
    /\ photoFiles = {}

\* the place-details operations
NextPlaces ==
    \/ \E i \in Slots, slug \in Slugs, pick \in PlaceIds, ok \in BOOLEAN :
          StartCompany(i, slug, pick, ok)
    \/ \E i \in Slots, p \in PlaceIds : \E q \in {"", PlaceName(p)} :
          StartDetails(i, p, q)
    \/ \E i \in Slots, ok \in BOOLEAN : \E resp \in FindResponses(procs[i].query) :
          RespondFind(i, resp, ok)
    \/ \E i \in Slots, ok \in BOOLEAN, ok2 \in BOOLEAN, fok \in BOOLEAN :
          \E resp \in DetailResponses(procs[i].placeId) :
             RespondDetails(i, resp, ok, ok2, fok)
    \/ Tick

\* the company pages and the photo route
NextPhoto ==
    \/ \E i \in Slots, slug \in Slugs, pick \in PlaceIds, ok \in BOOLEAN :
          StartCompany(i, slug, pick, ok)
    \/ \E i \in Slots, p \in PhotoPlaceIds, n \in PhotoIndexes, r \in BOOLEAN,
          ok \in BOOLEAN :
          StartPhoto(i, p, n, r, ok)
    \/ \E i \in Slots, ok \in BOOLEAN : \E resp \in FindResponses(procs[i].query) :
          RespondFind(i, resp, ok)
    \/ \E i \in Slots, ok \in BOOLEAN, ok2 \in BOOLEAN, fok \in BOOLEAN :
          \E resp \in DetailResponses(procs[i].placeId) :
             RespondDetails(i, resp, ok, ok2, fok)
    \/ \E i \in Slots, ok \in BOOLEAN : \E resp \in PhotoResponses :
          RespondPhoto(i, resp, ok)
    \/ Tick

\* a store in which one place id occurs twice and one company has none
PrefetchCompanies ==
    << [slug |-> "a", name |-> "A", placeId |-> "p1"],
       [slug |-> "b", name |-> "B", placeId |-> ""],
       [slug |-> "c", name |-> "B", placeId |-> "p2"],
       [slug |-> "d", name |-> "A", placeId |-> "p1"] >>

\* the prefetch job is switched on; the provider is off, or Google
PrefetchConfigs ==
    { [c EXCEPT !.PLACES_PREFETCH_ENABLED = TRUE] :
        c \in {d \in Configs : d.PLACES_PROVIDER = "google"} }

\* no cache file and no photo file, or the details and the photo of p1
PrefetchFiles == {f \in InitFiles : f.file.map["p2"] = Null}

\* the answers of the provider to the prefetch job and its neighbours: a
\* failure, a place without photos, a place with a photo
PrefetchResponses(p) ==
    { Failure("network_error") }
    \cup { Ok([NoData EXCEPT !.status = "OK",
                            !.result = RawPlace(p, PlaceName(p), v,
                                                Refs(v, GoogleRef))]) :
            v \in Versions }

InitPrefetch ==
    /\ now = 0
    /\ ticks = 0
    /\ config \in PrefetchConfigs
    /\ companies = PrefetchCompanies
    /\ companiesFile = "valid"
    /\ placesCache = EmptyCache(PlaceIds)
    /\ placeIdCache = EmptyCache(Queries)
    /\ placePhotoCache = EmptyCache(PhotoKeys)
    /\ placeDetailsDiskCache = NotLoaded
    /\ \E f \in PrefetchFiles : diskFile = f.file /\ photoFiles = f.pfiles
    /\ procs = [i \in Slots |-> IdleProc]
    /\ last = IdleProc
    /\ started = 0
    /\ prefetchRunning = FALSE
    /\ templates = AllTemplates
    /\ page = NoPage
    /\ db = << >>
    /\ reply = NoReply
    /\ mirrorCalls = {}
    /\ NoForum

\* the prefetch job next to requests for place details and photos
NextPrefetch ==
    \/ \E i \in Slots : StartPrefetch(i)
    \/ \E i \in Slots, p \in PlaceIds : StartDetails(i, p, PlaceName(p))
    \/ \E i \in Slots, p \in PhotoPlaceIds, n \in PhotoIndexes :
          StartPhoto(i, p, n, TRUE, TRUE)
    \/ \E i \in Slots : \E resp \in PrefetchResponses(procs[i].placeId) :
          RespondDetails(i, resp, TRUE, TRUE, TRUE)
    \/ \E i \in Slots : \E resp \in PhotoResponses :
          RespondPhoto(i, resp, TRUE)
    \/ \E i \in Slots : WakePrefetch(i)
    \/ Elapse

\* the store of the prefetch job: places to visit, no place id at all, or
\* an element that is null
FairCompanies ==
    { PrefetchCompanies,
      << [slug |-> "b", name |-> "B", placeId |-> ""] >>,
      << [slug |-> "a", name |-> "A", placeId |-> "p1"], Null >> }

InitPrefetchFair ==
    /\ now = 0
    /\ ticks = 0
    /\ config \in PrefetchConfigs
    /\ companies \in FairCompanies
    /\ companiesFile = "valid"
    /\ placesCache = EmptyCache(PlaceIds)
    /\ placeIdCache = EmptyCache(Queries)
    /\ placePhotoCache = EmptyCache(PhotoKeys)
    /\ placeDetailsDiskCache = NotLoaded
    /\ \E f \in PrefetchFiles : diskFile = f.file /\ photoFiles = f.pfiles
    /\ procs = [i \in Slots |-> IdleProc]
    /\ last = IdleProc
    /\ started = 0
    /\ prefetchRunning = FALSE
    /\ templates = AllTemplates
    /\ page = NoPage
    /\ db = << >>
    /\ reply = NoReply
    /\ mirrorCalls = {}
    /\ NoForum

\* a call of the provider returns, or the timer of a sleep fires
PrefetchReturns ==
    \/ \E i \in Slots : \E resp \in PrefetchResponses(procs[i].placeId) :
          RespondDetails(i, resp, TRUE, TRUE, TRUE)
    \/ \E i \in Slots : \E resp \in PhotoResponses : RespondPhoto(i, resp, TRUE)
    \/ \E i \in Slots : WakePrefetch(i)

\* the states in which PrefetchReturns can be taken: an operation waits for
\* the provider, or for a timer that is due
PrefetchWaits ==
    \E i \in Slots :
       \/ procs[i].pc \in {"details", "photo"}
       \/ procs[i].pc = "sleep" /\ now >= WakeAt(i)

EnabledIsWaiting == PrefetchWaits <=> ENABLED <<PrefetchReturns>>_vars

\* time passes, and every outbound call returns and every due timer fires:
\* weak fairness of Elapse and of PrefetchReturns, the latter with its
\* enabling condition written out as PrefetchWaits
PrefetchFairness ==
    /\ WF_vars(Elapse)
    /\ ([]<>(~PrefetchWaits) \/ []<><<PrefetchReturns>>_vars)

\* Date.now() when the first request arrives
ForumStart == 1000000
\* the time between two requests: less than the minimum interval, the
\* minimum interval, nearly a window
ForumDelays == {20000, FORUM_MIN_INTERVAL_MS, 590000}
Chars(n) == [k \in 1..n |-> "x"]
\* the honeypot field filled; a valid post; a title of one character between
\* blanks; a content of nine and of 2001 characters
ForumBodies ==
    { [website |-> Str(<<"h">>), title |-> Str(Chars(5)), content |-> Str(Chars(10))],
      [website |-> Undefined, title |-> Str(Chars(2)), content |-> Str(Chars(10))],
      [website |-> Str(<<" ">>), title |-> Str(<<" ", "x", " ">>),
       content |-> Str(Chars(10))],
      [website |-> Undefined, title |-> Str(Chars(80)), content |-> Str(Chars(9))],
      [website |-> Undefined, title |-> Str(Chars(2)), content |-> Str(Chars(2001))] }

InitForum ==
    /\ now = ForumStart
    /\ ticks = 0
    /\ config = CHOOSE c \in Configs : ~c.PLACES_API_ENABLED
    /\ companies = << >>
    /\ companiesFile = "valid"
    /\ placesCache = EmptyCache(PlaceIds)
    /\ placeIdCache = EmptyCache(Queries)
    /\ placePhotoCache = EmptyCache(PhotoKeys)
    /\ placeDetailsDiskCache = NotLoaded
    /\ diskFile = MissingFile /\ photoFiles = {}
    /\ procs = [i \in Slots |-> IdleProc]
    /\ last = IdleProc
    /\ started = 0
    /\ prefetchRunning = FALSE
    /\ templates = AllTemplates
    /\ page = NoPage
    /\ db = << >>
    /\ reply = NoReply
    /\ mirrorCalls = {}
    /\ NoForum

\* req.ip of the client
ForumIps == {"ip1"}

NextForum ==
    \/ \E ip \in ForumIps, body \in ForumBodies, insertOk \in BOOLEAN :
          PostForum(ip, body, insertOk)
    \/ \E delay \in ForumDelays : ForumWait(delay)

\* the provider is switched off, or switched on without the key it needs;
\* the prefetch job is switched on
OffConfigs ==
    { [Env(on, p, ~on /\ p = "google", ~on /\ p = "serpapi",
           ~on /\ p = "searchapi") EXCEPT !.PLACES_PREFETCH_ENABLED = TRUE] :
        on \in BOOLEAN, p \in {"google", "serpapi", "searchapi"} }

InitOff ==
    /\ now = 0
    /\ ticks = 0
    /\ config \in OffConfigs
    /\ companies = PlacesCompanies
    /\ companiesFile = "valid"
    /\ placesCache = EmptyCache(PlaceIds)
    /\ placeIdCache = EmptyCache(Queries)
    /\ placePhotoCache = EmptyCache(PhotoKeys)
    /\ placeDetailsDiskCache = NotLoaded
    /\ \E f \in InitFiles : diskFile = f.file /\ photoFiles = f.pfiles
    /\ procs = [i \in Slots |-> IdleProc]
    /\ last = IdleProc
    /\ started = 0
    /\ prefetchRunning = FALSE
    /\ templates = AllTemplates
    /\ page = NoPage
    /\ db = << >>
    /\ reply = NoReply
    /\ mirrorCalls = {}
    /\ NoForum

\* every operation of the places cache; no provider ever answers, because
\* none is asked
NextOff ==
    \/ \E i \in Slots, q \in Queries : StartFind(i, q)
    \/ \E i \in Slots, p \in PlaceIds : \E q \in {"", PlaceName(p)} :
          StartDetails(i, p, q)
    \/ \E i \in Slots, slug \in Slugs, pick \in PlaceIds :
          StartCompany(i, slug, pick, TRUE)
    \/ \E i \in Slots, p \in PlaceIds, n \in PhotoIndexes, r \in BOOLEAN :
          StartPhoto(i, p, n, r, TRUE)
    \/ \E i \in Slots : StartPrefetch(i)
    \/ Tick

\* fetchPlaceIdByQuery with every provider
NextFind ==
    \/ \E i \in Slots, q \in Queries : StartFind(i, q)
    \/ \E i \in Slots, ok \in BOOLEAN : \E resp \in FindResponses(procs[i].query) :
          RespondFind(i, resp, ok)
    \/ Tick

\* the company directory over every content of data/companies.json
CompanyLists ==
    UNION {[1..n -> {CompanyPool[k] : k \in 1..Len(CompanyPool)}] :
             n \in 0..MaxCompanies}

\* the provider switch, the files of image/place-photos and the partials
\* the directory is rendered with
InitSites ==
    LET off == CHOOSE c \in Configs : ~c.PLACES_API_ENABLED
        on  == CHOOSE c \in Configs :
                  c.PLACES_API_ENABLED /\ c.PLACES_PROVIDER = "google"
    IN { [config |-> on, pfiles |-> {<<"p1", 0>>}, templates |-> AllTemplates],
         [config |-> off, pfiles |-> {<<"p1", 0>>}, templates |-> InitTemplates[2]],
         [config |-> off, pfiles |-> {}, templates |-> InitTemplates[3]] }

InitDirectory ==
    /\ now = 0
    /\ ticks = 0
    /\ \E site \in InitSites :
          /\ config = site.config
          /\ photoFiles = site.pfiles
          /\ templates = site.templates
    /\ companies \in CompanyLists
    /\ companiesFile = "valid"
    /\ placesCache = EmptyCache(PlaceIds)
    /\ placeIdCache = EmptyCache(Queries)
    /\ placePhotoCache = EmptyCache(PhotoKeys)
    /\ placeDetailsDiskCache = NotLoaded
    /\ diskFile = MissingFile
    /\ procs = [i \in Slots |-> IdleProc]
    /\ last = IdleProc
    /\ started = 0
    /\ prefetchRunning = FALSE
    /\ page = NoPage
    /\ db = << >>
    /\ reply = NoReply
    /\ mirrorCalls = {}
    /\ NoForum

NextDirectory ==
    \/ GetCompanies
    \/ GetRestaurants
    \/ GetEnterprises

\* the companies of the home page: a coffee shop and a market without
\* category, and companies of the pool with and without category, of the
\* food industry and of another one
HomePool ==
    << [slug |-> "cof", name |-> <<"C", "o", "f", "f", "e", "e">>,
        summary |-> << >>,
        city |-> Monterrey, industry |-> foodIndustry,
        category |-> << >>, placeId |-> "", cover |-> << >>],
       [slug |-> "mart", name |-> <<"M", "a", "r", "t">>,
        summary |-> <<"bian4", "li4">>,
        city |-> MexicoCity, industry |-> foodIndustry,
        category |-> << >>, placeId |-> "p1", cover |-> << >>] >>
    \o SelectSeq(CompanyPool, LAMBDA c : c.slug \in {"abc", "tea", "bank"})
HomeLists ==
    UNION {[1..n -> {HomePool[k] : k \in 1..Len(HomePool)}] :
             n \in 0..MaxCompanies}

InitHome ==
    /\ now = 0
    /\ ticks = 0
    /\ \E site \in InitSites :
          /\ site.templates = AllTemplates
          /\ config = site.config
          /\ photoFiles = site.pfiles
          /\ templates = site.templates
    /\ companies \in HomeLists
    /\ companiesFile = "valid"
    /\ placesCache = EmptyCache(PlaceIds)
    /\ placeIdCache = EmptyCache(Queries)
    /\ placePhotoCache = EmptyCache(PhotoKeys)
    /\ placeDetailsDiskCache = NotLoaded
    /\ diskFile = MissingFile
    /\ procs = [i \in Slots |-> IdleProc]
    /\ last = IdleProc
    /\ started = 0
    /\ prefetchRunning = FALSE
    /\ page = NoPage
    /\ db = << >>
    /\ reply = NoReply
    /\ mirrorCalls = {}
    /\ NoForum

\* the page routes over every state of data/companies.json and of the
\* partials: all read, one of them missing, all missing
FileStates == {"valid", "missing", "invalid"}
PagesTemplates ==
    {InitTemplates[k] : k \in 1..Len(InitTemplates)}
    \cup {[AllTemplates EXCEPT !.companyTemplate = NoTemplate],
          [AllTemplates EXCEPT !.directoryTemplate = NoTemplate],
          [AllTemplates EXCEPT !.restaurantsTemplate = NoTemplate],
          [AllTemplates EXCEPT !.pageTemplates = FALSE]}
PagesSlugs == {"cof", "mart", "unknown"}

InitPages ==
    /\ now = 0
    /\ ticks = 0
    /\ config = CHOOSE c \in Configs : ~c.PLACES_API_ENABLED
    /\ photoFiles = {}
    /\ templates \in PagesTemplates
    /\ companies = SubSeq(HomePool, 1, 2)
    /\ companiesFile \in FileStates
    /\ placesCache = EmptyCache(PlaceIds)
    /\ placeIdCache = EmptyCache(Queries)
    /\ placePhotoCache = EmptyCache(PhotoKeys)
    /\ placeDetailsDiskCache = NotLoaded
    /\ diskFile = MissingFile
    /\ procs = [i \in Slots |-> IdleProc]
    /\ last = IdleProc
    /\ started = 0
    /\ prefetchRunning = FALSE
    /\ page = NoPage
    /\ db = << >>
    /\ reply = NoReply
    /\ mirrorCalls = {}
    /\ NoForum

NextPages ==
    \/ GetRestaurants
    \/ GetEnterprises
    \/ GetDirectory
    \/ \E i \in Slots, slug \in PagesSlugs : StartCompany(i, slug, "p1", TRUE)

\* the company page over the fields of a company and of its place data
GoodUrl == <<"H", "t", "t", "p", "s", ":", "/", "/", "a", ".", "m", "x">>
OtherUrl == <<"h", "t", "t", "p", ":", "/", "/", "g", "o", "o", ".", "g", "l">>
BadUrls == {<<"j", "a", "v", "a", "s", "c", "r", "i", "p", "t", ":", "x">>,
            <<"h", "t", "t", "p", ":", "/", "/", "a", " ", "b">>}
PageCompanies ==
    [slug : {"co"}, name : {<<"C", "o">>}, placeId : {"p1"},
     mapLink : {<< >>, GoodUrl, <<" ">>},
     mapUrl : {<< >>, OtherUrl},
     map : {<< >>},
     website : {<< >>, OtherUrl} \cup BadUrls,
     phone : {<< >>, <<"5", "5", " ", "1", "2">>},
     contact : {<< >>, <<" ", "w", "x", "1">>, <<"zan", "wu2">>},
     detail : {<< >>, <<"<", "b", ">", "&">>},
     detailPaid : {Undefined, Bool(TRUE), Bool(FALSE), Str(<<"n", "o">>)}]
PagePlaces ==
    {Null} \cup
    [kind : {"place"}, place_id : {"p1"}, name : {<<"C", "o">>}, ver : {1},
     photos : {<< >>},
     formatted_phone_number : {<< >>, <<"8", "1">>},
     website : {<< >>, GoodUrl},
     url : {<< >>, OtherUrl, <<"<", ">">>}]

InitCompanyPage ==
    /\ now = 0
    /\ ticks = 0
    /\ config = CHOOSE c \in Configs : ~c.PLACES_API_ENABLED
    /\ photoFiles = {}
    /\ templates = AllTemplates
    /\ \E company \in PageCompanies : companies = <<company>>
    /\ companiesFile = "valid"
    /\ placesCache = EmptyCache(PlaceIds)
    /\ placeIdCache = EmptyCache(Queries)
    /\ placePhotoCache = EmptyCache(PhotoKeys)
    /\ placeDetailsDiskCache = NotLoaded
    /\ \E place \in PagePlaces :
          diskFile = IF place = Null THEN MissingFile
                     ELSE [valid |-> TRUE,
                           map |-> [EmptyMap EXCEPT !["p1"] = place]]
    /\ procs = [i \in Slots |-> IdleProc]
    /\ last = IdleProc
    /\ started = 0
    /\ prefetchRunning = FALSE
    /\ page = NoPage
    /\ db = << >>
    /\ reply = NoReply
    /\ mirrorCalls = {}
    /\ NoForum

NextCompanyPage ==
    \E i \in Slots : StartCompany(i, "co", "p1", TRUE)

NextHome ==
    \/ GetHome
    \/ GetCompanies

\* a row stored by an earlier run of the server
StoredRow(k, createdAt) ==
    [id |-> k, name |-> VisitorLabel, email |-> <<"x">>, city |-> Undefined,
     contact |-> <<"x">>, created_at |-> createdAt]
\* the table at start-up: empty, two rows of the same second, and more rows
\* than the largest limit, all of different seconds
InitTables ==
    { << >>,
      [k \in 1..2 |-> StoredRow(k, 0 - 1)],
      [k \in 1..(MaxLimit + 1) |-> StoredRow(k, k - 1000)] }

InitForm ==
    /\ now = 0
    /\ ticks = 0
    /\ config = CHOOSE c \in Configs : ~c.PLACES_API_ENABLED
    /\ companies = PlacesCompanies
    /\ companiesFile = "valid"
    /\ placesCache = EmptyCache(PlaceIds)
    /\ placeIdCache = EmptyCache(Queries)
    /\ placePhotoCache = EmptyCache(PhotoKeys)
    /\ placeDetailsDiskCache = NotLoaded
    /\ diskFile = MissingFile
    /\ photoFiles = {}
    /\ procs = [i \in Slots |-> IdleProc]
    /\ last = IdleProc
    /\ started = 0
    /\ prefetchRunning = FALSE
    /\ templates = AllTemplates
    /\ page = NoPage
    /\ db \in InitTables
    /\ reply = NoReply
    /\ mirrorCalls = {}
    /\ NoForum

NextForm ==
    \/ \E body \in Bodies, insertOk \in BOOLEAN : PostSubmit(body, insertOk)
    \/ \E value \in Limits, readOk \in BOOLEAN, tieAsc \in BOOLEAN :
          GetSubmissions(value, readOk, tieAsc)
    \/ Tick

\* the form with its mirrors: submissions that pass and that fail validation,
\* and the mirror calls returning at any later time
MirrorBodies ==
    {body \in Bodies :
        /\ body.name = Undefined
        /\ body.contact.kind \in {"undefined", "string"}}
InitMirror ==
    /\ InitForm
    /\ db = << >>
NextMirror ==
    \/ \E body \in MirrorBodies, insertOk \in BOOLEAN : PostSubmit(body, insertOk)
    \/ \E call \in mirrorCalls, outcome \in MirrorOutcomes :
          MirrorSettles(call, outcome)
    \/ Tick

Spec == InitPlaces /\ [][NextPlaces]_vars

SpecDirectory == InitDirectory /\ [][NextDirectory]_vars

SpecHome == InitHome /\ [][NextHome]_vars

SpecPages == InitPages /\ [][NextPages]_vars

SpecCompanyPage == InitCompanyPage /\ [][NextCompanyPage]_vars

SpecForm == InitForm /\ [][NextForm]_vars

SpecMirror == InitMirror /\ [][NextMirror]_vars

SpecPhoto == InitPhoto /\ [][NextPhoto]_vars

SpecPrefetch == InitPrefetch /\ [][NextPrefetch]_vars
SpecForum == InitForum /\ [][NextForum]_vars
SpecPrefetchFair == InitPrefetchFair /\ [][NextPrefetch]_vars /\ PrefetchFairness

SpecFind == InitPlaces /\ [][NextFind]_vars

SpecOff == InitOff /\ [][NextOff]_vars

(***************************************************************************)
(* Properties of the places cache.                                         *)
(***************************************************************************)
Returned == last.pc = "done"
ExplicitPlaceId(slug) ==
    IF CompanyIndex(slug) = 0 THEN "" ELSE companies[CompanyIndex(slug)].placeId
DiskEntry(p) == IF p = "" THEN Null ELSE placeDetailsDiskCache.map[p]
FileEntry(p) == IF p = "" \/ ~diskFile.valid THEN Null ELSE diskFile.map[p]

C4_LiveResultWrittenThrough ==
    (Returned /\ last.live # Null)
    => /\ placesCache[last.placeId].present
       /\ placesCache[last.placeId].value = last.live
       /\ placesCache[last.placeId].expiresAt = now + PLACES_CACHE_TTL_MS
       /\ placeDetailsDiskCache.loaded
       /\ DiskEntry(last.placeId) = last.live
       /\ last.res = last.live
       /\ last.writes # {}
       /\ "ok" \in last.writes =>
             (diskFile.valid /\ diskFile.map = placeDetailsDiskCache.map)

\* a live result replaced an older entry of the disk tier
C4_Witness ==
    /\ Returned /\ last.live # Null /\ "ok" \in last.writes
    /\ diskFile.map[last.placeId] = last.live
    /\ \E i \in Slots : procs[i].pc = "details" /\ procs[i].placeId = last.placeId

\* C4 (as claimed): ... and the disk file has been rewritten from the
\* resident disk-tier object.
C4_LiveResultInFile ==
    (Returned /\ last.live # Null)
    => /\ placesCache[last.placeId].value = last.live
       /\ DiskEntry(last.placeId) = last.live
       /\ diskFile.valid /\ diskFile.map = placeDetailsDiskCache.map

\* C3 (as amended): a read that finds a memory-tier entry whose expiresAt is
\* not later than the current time treats it as absent.  For a place id the
\* read then asks the live provider; for a photo it asks the live provider
\* or, when the place details offer no usable photo reference, returns null;
\* for place details it is answered from the disk tier, which never expires,
\* without a request to the live provider.
C3_ExpiredEntryIsRefetched ==
    Returned =>
       /\ "id" \in last.expired => "find" \in last.calls
       /\ "photo" \in last.expired => ("photo" \in last.calls \/ last.res = Null)
       /\ "details" \in last.expired =>
             /\ "details" \notin last.calls
             /\ DiskEntry(last.placeId) # Null
             /\ last.op = "company" => last.res = DiskEntry(last.placeId)

\* a photo request found its entry expired exactly at the end of the TTL,
\* took the place details from the disk tier and fetched the photo again
C3_Witness ==
    /\ Returned /\ last.op = "photo"
    /\ {"photo", "details"} \subseteq last.expired
    /\ last.calls = {"photo"}
    /\ last.res = PhotoPayload
    /\ now = PLACES_CACHE_TTL_MS

\* C3 (as claimed): the read of an expired entry triggers a request to the
\* live provider, for place details, place ids and photos alike.
C3_ExpiredEntryAsksProvider ==
    Returned =>
       /\ "id" \in last.expired => "find" \in last.calls
       /\ "photo" \in last.expired => "photo" \in last.calls
       /\ "details" \in last.expired => "details" \in last.calls

(***************************************************************************)
(* Properties of the company directory.                                    *)
(***************************************************************************)
RECURSIVE SumCounts(_)
SumCounts(seq) == IF seq = << >> THEN 0 ELSE Head(seq).count + SumCounts(Tail(seq))

Built == page.html.kind = "html"
\* the places of the cards in the page: section, industry block, subgroup
\* (0 for a block without subgroups) and position
CardSlots ==
    {<<s, b, 0, k>> : s \in 1..Len(page.html.sections), b \in 1..MaxCompanies + 1,
                      k \in 1..MaxCompanies + 1}
      \cup {t \in (1..Len(page.html.sections)) \X (1..MaxCompanies + 1)
                     \X (1..MaxCompanies + 1) \X (1..MaxCompanies + 1) : TRUE}
IsSlot(t) ==
    /\ t[2] <= Len(page.html.sections[t[1]].industries)
    /\ LET block == page.html.sections[t[1]].industries[t[2]]
       IN IF t[3] = 0 THEN t[4] <= Len(block.cards)
          ELSE /\ t[3] <= Len(block.subgroups)
               /\ t[4] <= Len(block.subgroups[t[3]].cards)
CardAt(t) ==
    LET block == page.html.sections[t[1]].industries[t[2]]
    IN IF t[3] = 0 THEN block.cards[t[4]] ELSE block.subgroups[t[3]].cards[t[4]]
Cards == {t \in CardSlots : IsSlot(t)}

CountsAddUp ==
    /\ SumCounts(Tail(page.html.nav)) = Len(page.html.list)
    /\ Len(page.html.sections) = Len(page.html.nav) - 1
    /\ \A s \in 1..Len(page.html.sections) :
          LET section == page.html.sections[s]
          IN /\ section.city = page.html.nav[s + 1].city
             /\ SumCounts(section.industries) = page.html.nav[s + 1].count
             /\ \A b \in 1..Len(section.industries) :
                   LET block == section.industries[b]
                   IN /\ block.industry = foodIndustry =>
                            SumCounts(block.subgroups) = block.count
                      /\ block.industry # foodIndustry =>
                            Len(block.cards) = block.count
                      /\ \A g \in 1..Len(block.subgroups) :
                            Len(block.subgroups[g].cards) = block.subgroups[g].count
    /\ \A n \in 1..Len(page.html.list) :
          Cardinality({t \in Cards : CardAt(t).src = n}) = 1
    /\ Cardinality(Cards) = Len(page.html.list)

\* C5 (as amended): for every non-empty list of companies that
\* buildCompaniesHtml renders, the total of the "all" button equals the list
\* length, the per-city counts sum to the list length, within each city the
\* per-industry counts sum to the count of the city, within the food
\* industry the per-category counts sum to the count of the industry, and
\* every company is rendered as exactly one card; for an empty list the
\* HTML carries the placeholder text and neither buttons nor counts.
C5_CountsPartitionTheList ==
    Built =>
       IF Len(page.html.list) = 0
       THEN page.html.placeholder /\ page.html.nav = << >>
            /\ page.html.sections = << >>
       ELSE /\ ~page.html.placeholder
            /\ page.html.nav[1].count = Len(page.html.list)
            /\ CountsAddUp

\* a page of three companies in two cities, two of them in two categories
\* of the food industry of one city
C5_Witness ==
    /\ Built /\ Len(page.html.list) = 3
    /\ Len(page.html.nav) = 3
    /\ \E s \in 1..Len(page.html.sections) :
          \E b \in 1..Len(page.html.sections[s].industries) :
             /\ Len(page.html.sections[s].industries[b].subgroups) = 2
             /\ page.html.sections[s].industries[b].count = 2

\* C5 (as claimed): for every company list the HTML shows the total of the
\* "all" button, equal to the list length, and the counts add up.
C5_TotalAlwaysShown ==
    Built => /\ page.html.nav # << >>
             /\ page.html.nav[1].count = Len(page.html.list)
             /\ CountsAddUp

Contains(text, word) ==
    \E i \in 1..(Len(text) - Len(word) + 1) :
       SubSeq(text, i, i + Len(word) - 1) = word
\* hot, any white space, pot
ContainsHotPot(text) ==
    \E i \in 1..(Len(text) - 2), j \in 1..(Len(text) - 2) :
       /\ SubSeq(text, i, i + 2) = <<"h", "o", "t">>
       /\ SubSeq(text, j, j + 2) = <<"p", "o", "t">>
       /\ j >= i + 3
       /\ \A k \in (i + 3)..(j - 1) : text[k] \in WhiteSpace
NameAndSummary(company) == toLowerCase(company.name \o <<" ">> \o company.summary)
IsHotpot(text) ==
    \/ ContainsHotPot(text)
    \/ \E w \in {<<"huo", "guo">>,
               <<"h", "o", "t", "p", "o", "t">>,
               <<"ma", "la4", "tang">>,
               <<"chuan4", "chuan4", "xiang">>} : Contains(text, w)
IsNoodle(text) ==
    \E w \in {<<"mian", "guan">>,
               <<"la1", "mian">>,
               <<"r", "a", "m", "e", "n">>,
               <<"n", "o", "o", "d", "l", "e">>,
               <<"niu", "rou", "mian">>,
               <<"lan", "zhou">>,
               <<"dao", "xiao", "mian">>,
               <<"mi", "xian">>} : Contains(text, w)
IsBbq(text) ==
    \E w \in {<<"shao", "kao">>,
               <<"chuan4", "chuan4">>,
               <<"kao", "rou">>,
               <<"b", "b", "q">>,
               <<"b", "a", "r", "b", "e", "c", "u", "e">>,
               <<"kao", "yu2">>} : Contains(text, w)
ExpectedCategory(company) ==
    IF trim(company.category) # << >> THEN trim(company.category)
    ELSE IF IsHotpot(NameAndSummary(company)) THEN Hotpot
    ELSE IF IsNoodle(NameAndSummary(company)) THEN Noodle
    ELSE IF IsBbq(NameAndSummary(company)) THEN Bbq
    ELSE Chinese
AbcNoodles(company) ==
    /\ company.name = <<"A", "b", "c", " ", "N", "o", "o", "d", "l", "e", "s">>
    /\ company.summary = <<"niu", "rou", "mian">>
    /\ company.category = << >>
    /\ company.industry = foodIndustry

\* C6: the card of a food-industry company carries the trimmed explicit
\* category when that is non-empty, otherwise the first of hot pot, noodle
\* shop and barbecue whose keywords occur in name + " " + summary, otherwise
\* the Chinese restaurant; in a food-industry block every card stands in the
\* subgroup of its category; "Abc Noodles" with summary "niu rou mian" and no
\* category is a noodle shop.
C6_FoodCategory ==
    Built =>
       \A t \in Cards :
          LET company == page.html.list[CardAt(t).src]
          IN /\ trim(company.industry) = foodIndustry =>
                   CardAt(t).category = ExpectedCategory(company)
             /\ t[3] # 0 =>
                   page.html.sections[t[1]].industries[t[2]].subgroups[t[3]].category
                      = ExpectedCategory(company)
             /\ AbcNoodles(company) => CardAt(t).category = Noodle /\ t[3] # 0

\* a page with the card of Abc Noodles in the noodle-shop subgroup and the
\* card of a company whose text names both noodles and hot pot in the hot-pot
\* subgroup
C6_Witness ==
    /\ Built
    /\ \E t \in Cards :
          /\ AbcNoodles(page.html.list[CardAt(t).src])
          /\ t[3] # 0 /\ CardAt(t).category = Noodle
    /\ \E t \in Cards :
          /\ IsNoodle(NameAndSummary(page.html.list[CardAt(t).src]))
          /\ t[3] # 0 /\ CardAt(t).category = Hotpot

(***************************************************************************)
(* Properties of the contact form.                                         *)
(***************************************************************************)
Submitted == reply.route = "/api/submit"
\* the fields of the body are strings or absent
StringFields ==
    \A v \in {reply.body.name, reply.body.email, reply.body.contact} :
       v.kind \in {"undefined", "string"}
Trimmed(v) == IF v.kind = "string" THEN trim(v.text) ELSE << >>
Untrimmed(v) == IF v.kind = "string" THEN v.text ELSE << >>
NewRow == db[Len(db)]
Stored ==
    /\ reply.status = 200 /\ reply.ok
    /\ Len(db) = reply.rowsBefore + 1
    /\ NewRow.id = reply.id
    /\ NewRow.contact = Trimmed(reply.body.contact)
    /\ NewRow.city = reply.body.city
    /\ reply.mirrors = {"sheet", "feishu"}
NotStored == Len(db) = reply.rowsBefore /\ reply.mirrors = {} /\ ~reply.ok

\* C8 (as amended): POST /api/submit with a contact that is non-empty after
\* trimming and no name and no email passes validation and, unless the insert
\* fails (then the answer is 500 and nothing is stored), succeeds and stores
\* name = the visitor label and email = the trimmed contact; in general the
\* stored name is the trimmed name when non-empty and the stored email is
\* the trimmed email when non-empty.
C8_ContactOnlyGetsDefaults ==
    (Submitted /\ StringFields) =>
       /\ (/\ Trimmed(reply.body.contact) # << >>
           /\ Trimmed(reply.body.name) = << >>
           /\ Trimmed(reply.body.email) = << >>)
          => IF reply.insertOk
             THEN /\ Stored
                  /\ NewRow.name = VisitorLabel
                  /\ NewRow.email = Trimmed(reply.body.contact)
             ELSE /\ reply.status = 500 /\ reply.message = "cun chu shi bai"
                  /\ NotStored
       /\ reply.status = 200 =>
             /\ Stored
             /\ Trimmed(reply.body.name) # << >> =>
                   NewRow.name = Trimmed(reply.body.name)
             /\ Trimmed(reply.body.email) # << >> =>
                   NewRow.email = Trimmed(reply.body.email)
             /\ Trimmed(reply.body.email) = << >> =>
                   NewRow.email = Trimmed(reply.body.contact)

\* the body {contact: "+52123", city: "CDMX"} was stored
C8_Witness ==
    /\ Submitted /\ reply.status = 200
    /\ reply.body.name = Undefined /\ reply.body.email = Undefined
    /\ reply.body.city # Undefined
    /\ NewRow.name = VisitorLabel
    /\ NewRow.email = Untrimmed(reply.body.contact)
    /\ NewRow.id = reply.id /\ reply.id > 1

\* C8 (as claimed): POST /api/submit with a non-empty contact and no name
\* and no email succeeds and stores the visitor label and the trimmed contact.
C8_ContactOnlySucceeds ==
    (/\ Submitted /\ StringFields
     /\ Untrimmed(reply.body.contact) # << >>
     /\ Untrimmed(reply.body.name) = << >>
     /\ Untrimmed(reply.body.email) = << >>)
    => /\ Stored
       /\ NewRow.name = VisitorLabel
       /\ NewRow.email = Trimmed(reply.body.contact)

C10_AtMost500NewestFirst ==
    (reply.route = "/api/submissions" /\ reply.ok) =>
       /\ Len(reply.data) <= 500
       /\ \A k \in 1..(Len(reply.data) - 1) :
             reply.data[k].created_at >= reply.data[k + 1].created_at
       /\ \A k \in 1..Len(reply.data) : \E n \in 1..Len(db) : db[n] = reply.data[k]
       /\ (reply.limit = Undefined \/ parseInt(reply.limit).nan) =>
             Len(reply.data) = Min(100, Len(db))

(***************************************************************************)
(* Properties of the company page, the photo route and the prefetch job.   *)
(***************************************************************************)
CacheState == <<placesCache, placeIdCache, placePhotoCache,
                placeDetailsDiskCache, diskFile, photoFiles>>
SlugKnown(slug) == \E n \in DOMAIN companies : companies[n].slug = slug

\* C11: GET /company/:slug is answered with 404 at once whenever no company
\* of the store has exactly the requested slug; the request issues no
\* provider call and leaves the memory caches, the resident disk tier (a
\* first read would load it), the cache file and the photo files as they were.
C11_UnknownSlugIs404 ==
    /\ [](\A i \in Slots : procs[i].op = "company" => SlugKnown(procs[i].slug))
    /\ [][(/\ started' = started + 1
           /\ last'.op = "company"
           /\ ~SlugKnown(last'.slug))
          => /\ last'.pc = "done" /\ last'.status = 404 /\ last'.res = Null
             /\ last'.calls = {} /\ last'.writes = {} /\ last'.expired = {}
             /\ UNCHANGED CacheState /\ procs' = procs]_vars

\* an unknown slug was answered with 404 while the cache file existed and
\* the disk tier had not been loaded
C11_Witness ==
    /\ Returned /\ last.op = "company" /\ last.slug = "unknown"
    /\ last.status = 404
    /\ diskFile.valid /\ ~placeDetailsDiskCache.loaded

\* the memory photo cache holds a valid entry for index n of place p
PhotoCached(p, n) ==
    placePhotoCache[<<p, n>>].present /\ placePhotoCache[<<p, n>>].expiresAt > now

\* C12: a photo download from the live provider for (placeId, index) is
\* issued only when the memory photo cache misses, no local photo file
\* exists for that placeId and index, and the provider is enabled, on the
\* photo route and in the prefetch job alike.
C12_PhotoCallOnlyWithoutLocalFile ==
    [][\A i \in Slots :
          (procs'[i].pc = "photo" /\ procs[i].pc # "photo")
          => /\ isPlacesApiEnabled
             /\ ~PhotoCached(procs'[i].placeId, procs'[i].index)
             /\ LocalPhotoName(procs'[i].placeId, procs'[i].index) \notin photoFiles]_vars

\* C13: while the live provider is disabled, no operation issues a request
\* to it: fetchPlaceIdByQuery, fetchPlaceDetails, getCompanyPlaceData, the
\* photo route and prefetchPlacesCache return in the step in which they are
\* called, with no request on record, and fetchPlacePhoto would do the same
\* for every place and index; the photo route answers 404 when there is no
\* local file for the place and index.
C13_NoRequestWhileDisabled ==
    ~isPlacesApiEnabled =>
       /\ \A i \in Slots : procs[i].pc = "idle"
       /\ last.calls = {}
       /\ ~prefetchRunning
       /\ \A p \in PlaceIds, n \in PhotoIndexes :
             LET s == fetchPlacePhoto_Start(World(1), p, n)
             IN s.pc = "done" /\ s.res = Null /\ s.w.calls = {}
       /\ (/\ Returned /\ last.op = "photo"
           /\ LocalPhotoName(last.placeId, last.index) \notin photoFiles)
          => last.status = 404

\* the photo route answered 404 with the switch on and the key missing,
\* although the cache file holds the place with a photo
C13_Witness ==
    /\ ~isPlacesApiEnabled /\ config.PLACES_API_ENABLED
    /\ Returned /\ last.op = "photo" /\ last.status = 404
    /\ last.placeId = "p1" /\ last.index = 1
    /\ FileEntry("p1") # Null /\ Len(FileEntry("p1").photos) > 0
    /\ started = 2

PrefetchRuns == {i \in Slots : procs[i].op = "prefetch"}
\* the step is a call of prefetchPlacesCache
PrefetchCalled ==
    /\ started' = started + 1
    /\ \/ last'.op = "prefetch"
       \/ \E i \in Slots : procs[i].pc = "idle" /\ procs'[i].op = "prefetch"

\* C14: at most one run of prefetchPlacesCache is active at any time, the
\* flag prefetchRunning being true exactly while one is; a call made while
\* the flag is true returns at once: it does not read the company store (its
\* queue of place ids stays empty), issues no provider request, and leaves
\* the flag, the running run and the caches as they are.
C14_SinglePrefetchRun ==
    /\ [](/\ Cardinality(PrefetchRuns) <= 1
          /\ prefetchRunning <=> PrefetchRuns # {})
    /\ [][(prefetchRunning /\ PrefetchCalled)
          => /\ last'.op = "prefetch" /\ last'.pc = "done"
             /\ last'.stage = "skipped"
             /\ last'.queue = << >> /\ last'.log = << >> /\ last'.calls = {}
             /\ prefetchRunning'
             /\ procs' = procs
             /\ UNCHANGED CacheState]_vars

\* a call was turned away while a run was waiting for the provider
C14_Witness ==
    /\ Returned /\ last.op = "prefetch" /\ last.stage = "skipped"
    /\ prefetchRunning
    /\ \E i \in Slots : procs[i].op = "prefetch" /\ procs[i].pc = "details"

\* the place ids of the company store
StorePlaceIds == {companies[n].placeId : n \in DOMAIN companies} \ {""}
LogKinds == <<"details", "detailsDone", "photo", "photoDone", "sleepDone">>
\* the log is made of one block of five entries per place visited: the start
\* and the end of the details fetch, the start and the end of the photo
\* fetch, the end of the sleep, in this order in time, the sleep ending no
\* earlier than PREFETCH_DELAY_MS after the photo fetch; no place has two
\* blocks
Serial(log) ==
    /\ \A k \in 1..Len(log) :
          /\ log[k][1] = LogKinds[((k - 1) % 5) + 1]
          /\ log[k][2] \in StorePlaceIds
          /\ (k - 1) % 5 # 0 =>
                /\ log[k][2] = log[k - 1][2]
                /\ log[k][3] >= log[k - 1][3]
          /\ ((k - 1) % 5 = 0 /\ k > 1) =>
                /\ log[k][3] >= log[k - 1][3]
                /\ \A j \in 1..(k - 1) : log[j][2] # log[k][2]
          /\ log[k][1] = "sleepDone" => log[k][3] >= log[k - 1][3] + 250
\* the places whose block is complete
Visited(log) == {log[k][2] : k \in {j \in 1..Len(log) : log[j][1] = "sleepDone"}}

\* C15: a prefetch run visits every distinct non-empty placeId of the
\* company store exactly once and one after the other: the details fetch of
\* a place ends before its photo fetch starts, and the next place starts
\* only after the photo fetch of the previous one and a sleep of at least
\* 250 ms have ended; the run ends when every place has been visited.
C15_PrefetchIsSerial ==
    /\ \A i \in PrefetchRuns :
          /\ Serial(procs[i].log)
          /\ Visited(procs[i].log) # StorePlaceIds
          /\ Len(procs[i].log) % 5 # 0
    /\ (Returned /\ last.op = "prefetch" /\ last.stage # "skipped")
       => /\ Serial(last.log)
          /\ Visited(last.log) = StorePlaceIds
          /\ Len(last.log) = 5 * Cardinality(StorePlaceIds)

\* a run over a store with two places ended, having fetched the details of
\* both from the provider
C15_Witness ==
    /\ Returned /\ last.op = "prefetch" /\ Len(last.log) = 10
    /\ last.log[1][2] = "p1" /\ last.log[6][2] = "p2"
    /\ last.log[6][3] >= last.log[4][3] + 250
    /\ DiskEntry("p1") # Null /\ DiskEntry("p2") # Null
    /\ ~diskFile.valid \/ diskFile.map = placeDetailsDiskCache.map
    /\ ~prefetchRunning

\* operation i waits for the details of a place for which another request
\* is in flight as well, or was answered and stored since i asked
Duplicate(i) ==
    /\ procs[i].pc = "details"
    /\ \/ \E j \in Slots \ {i} :
             procs[j].pc = "details" /\ procs[j].placeId = procs[i].placeId
       \/ DiskEntry(procs[i].placeId) # Null
\* the record of operation i after its step
After(i) == IF procs'[i].pc = "idle" THEN last' ELSE procs'[i]

\* C16 (as amended): a prefetch run and a request, or two requests, can
\* both ask the provider for the details of the same uncached place.  Each
\* of the two calls that succeeds hands its result to its caller and stores
\* it in the memory tier and in the disk tier, over whatever the other call
\* stored, so that after two successful calls both tiers hold the result of
\* the one answered last; a call that fails leaves the entry of the disk
\* tier as it is, fetchPlaceDetails returns null and getCompanyPlaceData
\* returns that entry.
C16_DuplicateFetchLastWins ==
    [][\A i \in Slots :
          (Duplicate(i) /\ procs'[i] # procs[i])
          => LET p == procs[i].placeId
                 a == After(i)
             IN IF a.live # Null
                THEN /\ placesCache'[p].present
                     /\ placesCache'[p].value = a.live
                     /\ placeDetailsDiskCache'.map[p] = a.live
                     /\ a.op \in {"details", "company"} => a.res = a.live
                ELSE /\ placeDetailsDiskCache'.map[p] = placeDetailsDiskCache.map[p]
                     /\ a.op = "details" => a.res = Null
                     /\ a.op = "company" => a.res = DiskEntry(p)]_vars

\* a request got the second version of a place while the prefetch run, whose
\* own request for the place had been answered with the first version, was
\* still at that place: both tiers hold the second version
C16_Witness ==
    /\ Returned /\ last.op = "details" /\ "details" \in last.calls
    /\ last.live # Null /\ last.res = last.live
    /\ \E i \in Slots :
          /\ procs[i].op = "prefetch" /\ procs[i].placeId = last.placeId
          /\ "details" \in procs[i].calls
          /\ procs[i].live # Null /\ procs[i].live # last.live
    /\ placesCache[last.placeId].value = last.live
    /\ DiskEntry(last.placeId) = last.live

\* C16 (as claimed): ... after both calls completed every caller got a
\* non-null result and both tiers hold the result of the call that completed
\* last.
C16_DuplicateFetchBothSucceed ==
    [][\A i \in Slots :
          (Duplicate(i) /\ procs'[i] # procs[i])
          => /\ After(i).live # Null
             /\ placesCache'[procs[i].placeId].value = After(i).live
             /\ placeDetailsDiskCache'.map[procs[i].placeId] = After(i).live]_vars

\* the place id of the first candidate of a provider's answer: the first
\* local result or else the place result of a SERP-style provider, the first
\* candidate of a Google answer of status OK; empty when the request failed
\* or the answer holds no candidate
FirstCandidateId(resp) ==
    IF resp.kind # "ok" THEN ""
    ELSE IF config.PLACES_PROVIDER = "google"
         THEN IF resp.data.status = "OK" /\ resp.data.candidates # << >>
              THEN resp.data.candidates[1].place_id ELSE ""
    ELSE IF resp.data.local_results # << >>
         THEN resp.data.local_results[1].place_id
    ELSE IF resp.data.place_results # Null
         THEN resp.data.place_results.place_id
    ELSE ""
\* the step is a call fetchPlaceIdByQuery(q)
FindCalled(q) ==
    /\ started' = started + 1
    /\ \/ last'.op = "find" /\ last'.query = q
       \/ \E i \in Slots : /\ procs[i].pc = "idle"
                            /\ procs'[i].op = "find" /\ procs'[i].query = q

\* C17: fetchPlaceIdByQuery never throws.  Whatever the provider answers,
\* it returns the place id of the first candidate, and stores it under the
\* query for PLACES_CACHE_TTL_MS when it is not empty; it returns the empty
\* string, and stores nothing, when there is no candidate or the request
\* fails.  A call with a query whose stored id has not expired returns that
\* id at once, without a provider request.
C17_FindReturnsFirstCandidate ==
    /\ [](/\ (Returned /\ last.op = "find") => (~last.threw /\ last.res.kind = "id")
          /\ \A i \in Slots :
                (procs[i].pc = "find" /\ procs[i].op = "find") =>
                   \A resp \in FindResponses(procs[i].query) :
                      LET q == procs[i].query
                          s == fetchPlaceIdByQuery_Resume(World(i), q, resp)
                          id == FirstCandidateId(resp)
                      IN /\ s.pc = "done" /\ ~s.threw
                         /\ s.res = IdVal(id)
                         /\ s.w.calls = {"find"}
                         /\ IF id # ""
                            THEN /\ s.w.ids[q] = [value |-> IdVal(id),
                                                  expiresAt |-> now + PLACES_CACHE_TTL_MS,
                                                  present |-> TRUE]
                                 /\ \A k \in Queries \ {q} : s.w.ids[k] = placeIdCache[k]
                            ELSE s.w.ids = placeIdCache)
    /\ [][\A q \in Queries :
             (/\ FindCalled(q) /\ isPlacesApiEnabled
              /\ placeIdCache[q].present /\ placeIdCache[q].expiresAt > now)
             => /\ last'.op = "find" /\ last'.pc = "done"
                /\ last'.res = placeIdCache[q].value
                /\ last'.calls = {}
                /\ placeIdCache' = placeIdCache]_vars

\* half a TTL after the id of query B was found, a second call returned it
\* without a request
C17_Witness ==
    /\ Returned /\ last.op = "find" /\ last.query = "B"
    /\ last.res = IdVal("p2") /\ last.calls = {}
    /\ placeIdCache["B"].present /\ placeIdCache["B"].expiresAt > now
    /\ now > 0 /\ started = 2

(***************************************************************************)
(* Properties of the order of the cities and of the directory data.        *)
(***************************************************************************)
\* the cities of the sections and of the buttons after the "all" button
SectionCities == [k \in 1..Len(page.html.sections) |-> page.html.sections[k].city]
NavCities == [k \in 1..(Len(page.html.nav) - 1) |-> page.html.nav[k + 1].city]
\* the city of the n-th company of the list rendered
ListCity(n) ==
    IF page.html.list[n].city = << >> THEN UnclassifiedCity
    ELSE page.html.list[n].city
FirstSeen(city) ==
    CHOOSE n \in 1..Len(page.html.list) :
       /\ ListCity(n) = city
       /\ \A m \in 1..(n - 1) : ListCity(m) # city
Pinned(city) == city \in {MexicoCity, Monterrey}

\* C18: in the output of buildCompaniesHtml for a non-empty list every city
\* of the list has one section; Mexico City comes first when it occurs,
\* Monterrey comes next (first when Mexico City does not occur), and the
\* other cities follow in the order of their first appearance in the list;
\* the buttons of the navigation bar name the same cities in the same order.
C18_CityOrder ==
    (Built /\ ~page.html.placeholder) =>
       /\ NavCities = SectionCities
       /\ {SectionCities[k] : k \in 1..Len(SectionCities)}
             = {ListCity(n) : n \in 1..Len(page.html.list)}
       /\ \A j, k \in 1..Len(SectionCities) :
             j < k =>
                /\ SectionCities[j] # SectionCities[k]
                /\ SectionCities[k] # MexicoCity
                /\ SectionCities[k] = Monterrey => SectionCities[j] = MexicoCity
                /\ (~Pinned(SectionCities[j]) /\ ~Pinned(SectionCities[k]))
                   => FirstSeen(SectionCities[j]) < FirstSeen(SectionCities[k])

\* a list that names Guadalajara, then Monterrey, then Mexico City was
\* rendered with Mexico City first, Monterrey second, Guadalajara last
C18_Witness ==
    /\ Built /\ ~page.html.placeholder
    /\ Len(page.html.list) = 3 /\ Len(SectionCities) = 3
    /\ ListCity(2) = Monterrey /\ ListCity(3) = MexicoCity
    /\ SectionCities[1] = MexicoCity /\ SectionCities[2] = Monterrey
    /\ SectionCities[3] = ListCity(1)
    /\ NavCities[3] = ListCity(1)


\* the cards that the listing of the page shows for the company at position
\* src of data/companies.json
CardsOf(src) == {t \in Cards : CardAt(t).src = src}

\* C19: on the home page, every food-industry company gets the same category
\* in window.__DIRECTORY_DATA__ as in the listing rendered by the server
C19_DirectoryCategoryMatchesListing ==
    (page.route = "/" /\ Built) =>
       \A k \in 1..Len(page.data) :
          \A t \in CardsOf(page.data[k].src) :
             (page.data[k].industry = foodIndustry
              /\ CardAt(t).industry = foodIndustry)
                => page.data[k].category = CardAt(t).category

\* the home page has been built with a food-industry company in both the
\* data and the listing
C19_Compared ==
    /\ page.route = "/" /\ Built
    /\ \E k \in 1..Len(page.data) :
          \E t \in CardsOf(page.data[k].src) :
             /\ page.data[k].industry = foodIndustry
             /\ CardAt(t).industry = foodIndustry
             /\ page.data[k].category = CardAt(t).category


(***************************************************************************)
(* Properties of the mirrors of the contact form.                          *)
(***************************************************************************)
MirrorKeys(calls) == {<<c.mirror, c.id>> : c \in calls}
Response(r) == [status |-> r.status, ok |-> r.ok, message |-> r.message,
                id |-> r.id]
SubmitStep == started' = started + 1
MirrorsStarted == MirrorKeys(mirrorCalls') \ MirrorKeys(mirrorCalls)
MirrorReturns ==
    \E c \in mirrorCalls : c.state = "pending" /\ c \notin mirrorCalls'

\* C20: a step of POST /api/submit starts mirror calls only together with a
\* successful insert, and then both, for the new row, with the answer ok and
\* the id of the row; when the insert fails the answer is 500 and no call is
\* started; the return of a mirror call, whatever its outcome and whenever
\* it happens, leaves the answer and the table as they are.
C20_MirrorsAfterInsertOnly ==
    [][/\ MirrorsStarted # {} =>
             /\ SubmitStep
             /\ db' # << >> /\ db' = Append(db, db'[Len(db')])
             /\ MirrorsStarted = {"sheet", "feishu"} \X {db'[Len(db')].id}
             /\ \A c \in mirrorCalls' \ mirrorCalls : c.state = "pending"
             /\ Response(reply') =
                   [status |-> 200, ok |-> TRUE, message |-> "",
                    id |-> db'[Len(db')].id]
       /\ (SubmitStep /\ db' # db) => MirrorsStarted # {}
       /\ (SubmitStep /\ ~reply'.insertOk) =>
             /\ reply'.status = 500 /\ ~reply'.ok
             /\ db' = db /\ mirrorCalls' = mirrorCalls
       /\ MirrorReturns =>
             /\ reply' = reply /\ db' = db
             /\ MirrorKeys(mirrorCalls') = MirrorKeys(mirrorCalls)]_vars

\* the answer of a stored submission is still the last one after one of its
\* mirror calls failed and the other was made for nothing
C20_Witness ==
    /\ Submitted /\ reply.status = 200 /\ reply.ok
    /\ MirrorCall("sheet", reply.id, "failed") \in mirrorCalls
    /\ MirrorCall("feishu", reply.id, "off") \in mirrorCalls
    /\ now > NewRow.created_at

(***************************************************************************)
(* Properties of the page routes when a file is missing.                   *)
(***************************************************************************)
PageRoutes == {"/restaurants", "/enterprises", "/directory"}
PageAnswered == page.route \in PageRoutes
CompanyAnswered == Returned /\ last.op = "company"
\* the partial or the page template that the route of the page needs is
\* missing
PageTemplateMissing ==
    \/ ~templates.pageTemplates
    \/ page.route = "/restaurants" /\ templates.restaurantsTemplate = NoTemplate
    \/ page.route = "/enterprises" /\ templates.enterprisesTemplate = NoTemplate
    \/ page.route = "/directory" /\ templates.directoryTemplate = NoTemplate
PlainText500 == page.status = 500 /\ page.html.kind = "text"
\* the page of an empty list: the placeholder text, or no item in the data
EmptyListPage ==
    /\ page.status = 200
    /\ IF page.route = "/directory" THEN page.data = << >>
       ELSE page.html.kind = "html" /\ page.html.placeholder

CompanyRendered == CompanyAnswered /\ last.status = 200
\* the page sent for the request that returned last
CompanyPage == renderCompanyPage(companies[CompanyIndex(last.slug)], last.res)
Buttons(html, name) ==
    {k \in 1..Len(html.actionButtons) : html.actionButtons[k].button = name}
PrimaryButtons(html) ==
    {k \in 1..Len(html.actionButtons) : html.actionButtons[k].primary}

\* C22: the action buttons have exactly one primary button whenever a map
\* link, a website or a phone number is available, and never two
C22_OnePrimaryButton ==
    CompanyRendered =>
       LET html == CompanyPage
           available == \/ Buttons(html, "map") # {}
                        \/ Buttons(html, "website") # {}
                        \/ html.phone # << >>
       IN /\ Cardinality(PrimaryButtons(html)) <= 1
          /\ available => Cardinality(PrimaryButtons(html)) = 1

\* the part of C22 that the code keeps: at most one action button is
\* primary, the map button when there is a map link and else the website
\* button
C22_MapThenWebsite ==
    CompanyRendered =>
       LET html == CompanyPage
       IN PrimaryButtons(html) =
             IF Buttons(html, "map") # {} THEN Buttons(html, "map")
             ELSE Buttons(html, "website")

Shown == companies[CompanyIndex(last.slug)]
\* the text that a browser shows for escaped text: the five entities read
\* back as their characters
RECURSIVE Unescape(_)
Unescape(text) ==
    IF text = << >> THEN << >>
    ELSE IF \E c \in {"&", "<", ">", "\"", "'"} : HasPrefix(text, EscapeOf(c))
    THEN LET c == CHOOSE x \in {"&", "<", ">", "\"", "'"} :
                     HasPrefix(text, EscapeOf(x))
         IN <<c>> \o Unescape(SubSeq(text, Len(EscapeOf(c)) + 1, Len(text)))
    ELSE <<Head(text)>> \o Unescape(Tail(text))
Markup(text) == {k \in 1..Len(text) : text[k] \in {"<", ">", "\"", "'"}}

\* C23: the company page always has the detail section; the section is
\* unlocked exactly when company.detail is non-empty and detailPaid is
\* truthy, and then shows the detail as escaped text; otherwise it is locked
\* and shows the locked message and nothing of the detail.
C23_DetailBehindDetailPaid ==
    CompanyRendered =>
       LET section == CompanyPage.detail
       IN /\ section.locked <=>
                (Shown.detail = << >> \/ ~Truthy(Shown.detailPaid))
          /\ section.locked => section.text = LockedMessage
          /\ ~section.locked =>
                /\ Unescape(section.text) = Shown.detail
                /\ Markup(section.text) = {}

\* a company with a detail and detailPaid false got the locked section
C23_Witness ==
    /\ CompanyRendered
    /\ Shown.detail # << >> /\ Shown.detailPaid = Bool(FALSE)
    /\ CompanyPage.detail.locked
    /\ CompanyPage.detail.text # escapeHtml(Shown.detail)

(***************************************************************************)
(* Properties of the two tiers of the places cache.                        *)
(***************************************************************************)
MemoryHolds(p) == placesCache[p].present

\* C24: whenever the memory tier holds an entry for a place, expired or
\* not, the disk tier has been loaded and its resident object holds the same
\* value for the place.
C24_MemoryEntryIsOnDisk ==
    \A p \in PlaceIds :
       MemoryHolds(p) =>
          /\ placeDetailsDiskCache.loaded
          /\ DiskEntry(p) = placesCache[p].value

\* the memory tier and the resident disk tier hold a live result that the
\* cache file does not hold, because the file could not be written
C24_Witness ==
    \E p \in PlaceIds :
       /\ MemoryHolds(p)
       /\ DiskEntry(p) = placesCache[p].value
       /\ FileEntry(p) # placesCache[p].value
       /\ Returned /\ last.live = placesCache[p].value


ResidentKeys == {p \in PlaceIds : placeDetailsDiskCache.map[p] # Null}

\* C25: no step removes an entry from the resident disk tier, and every step
\* that rewrites the cache file leaves in it every entry the resident disk
\* tier holds, so the entries written through by other operations are kept.
C25_RewriteKeepsEarlierEntries ==
    [][ /\ \A p \in ResidentKeys : placeDetailsDiskCache'.map[p] # Null
        /\ diskFile' # diskFile =>
              /\ diskFile'.valid
              /\ \A p \in PlaceIds :
                    placeDetailsDiskCache'.map[p] # Null =>
                       diskFile'.map[p] = placeDetailsDiskCache'.map[p] ]_vars

\* an operation has written its live result for one place to the file, and
\* the file still holds the entry of another place
C25_Witness ==
    \E p \in PlaceIds, q \in PlaceIds :
       /\ p # q
       /\ Returned /\ last.live # Null /\ "ok" \in last.writes
       /\ last.placeId = q
       /\ FileEntry(q) = last.live
       /\ MemoryHolds(p)
       /\ FileEntry(p) = placesCache[p].value


(***************************************************************************)
(* Properties of the end of a prefetch run.                                *)
(***************************************************************************)
\* C26: when every outbound call returns and every timer fires, a prefetch
\* run that has set prefetchRunning sets it back to false, whether it visits
\* places, finds no place id or throws.
C26_RunningIsReset == prefetchRunning ~> ~prefetchRunning

\* a run that waited for the provider and for its sleep has returned and
\* the flag is down
C26_Witness ==
    /\ Returned /\ last.op = "prefetch" /\ last.stage # "skipped"
    /\ Len(last.log) > 0 /\ "details" \in last.calls
    /\ ~prefetchRunning

\* runs that end before their first wait: no place id, and a thrown error
C26_EmptyRun ==
    /\ Returned /\ last.op = "prefetch" /\ last.stage # "skipped"
    /\ ~last.threw /\ Len(last.log) = 0
C26_ThrowingRun == Returned /\ last.op = "prefetch" /\ last.threw


(***************************************************************************)
(* Properties of the rate limiter of the forum.                            *)
(***************************************************************************)
ForumPosted == started' = started + 1 /\ reply'.route = "/api/forum-posts"
\* the times at which posts of the key were accepted in its current window
InWindow(k) ==
    {n \in DOMAIN accepted[k] :
       accepted[k][n] >= forumRateLimits[k].resetAt - FORUM_RATE_LIMIT_WINDOW_MS}

\* C27: for every key, at most four posts are accepted in a window, the
\* window ends ten minutes after the first accepted request that follows the
\* end of the window before, and a call that is rejected leaves count and
\* lastAt of every key as they are.
C27_FourPostsPerWindow ==
    /\ [](\A k \in ForumKeys :
             forumRateLimits[k].present =>
                /\ Cardinality(InWindow(k)) = forumRateLimits[k].count
                /\ forumRateLimits[k].count <= FORUM_RATE_LIMIT_MAX
                /\ \A n \in InWindow(k) :
                      /\ accepted[k][n] <= forumRateLimits[k].resetAt
                      /\ (\A m \in InWindow(k) : n <= m) =>
                            forumRateLimits[k].resetAt
                               = accepted[k][n] + FORUM_RATE_LIMIT_WINDOW_MS
                /\ \A n \in DOMAIN accepted[k] \ InWindow(k) :
                      n + 1 \in InWindow(k) =>
                         accepted[k][n + 1] + FORUM_RATE_LIMIT_WINDOW_MS
                            = forumRateLimits[k].resetAt)
    /\ [][(ForumPosted /\ reply'.status = 429) =>
             \A k \in ForumKeys :
                /\ forumRateLimits'[k].count = forumRateLimits[k].count
                /\ forumRateLimits'[k].lastAt = forumRateLimits[k].lastAt]_vars

\* the fifth post of a window is rejected, and after the window a post is
\* accepted again
C27_Witness ==
    \E k \in ForumKeys :
       /\ reply.route = "/api/forum-posts" /\ reply.ip = k
       /\ reply.status = 429 /\ reply.stage = "rate_limited"
       /\ forumRateLimits[k].count = FORUM_RATE_LIMIT_MAX
       /\ Len(accepted[k]) = FORUM_RATE_LIMIT_MAX

\* C28: two posts of the same key that the rate limiter accepted are at
\* least 25 seconds apart.
C28_AcceptedPostsSpaced ==
    \A k \in ForumKeys :
       \A n \in DOMAIN accepted[k] :
          n > 1 => accepted[k][n] - accepted[k][n - 1] >= FORUM_MIN_INTERVAL_MS

\* the posts accepted within one window are at least 25 seconds apart
C28_SpacedWithinWindow ==
    \A k \in ForumKeys :
       \A n \in InWindow(k), m \in InWindow(k) :
          n < m => accepted[k][m] - accepted[k][n] >= FORUM_MIN_INTERVAL_MS

\* C29: a request that is answered with 400 leaves the state of the rate
\* limiter as it is.
C29_RejectedPostKeepsQuota ==
    [][(ForumPosted /\ reply'.status = 400) =>
          forumRateLimits' = forumRateLimits]_vars

\* a request stopped by the honeypot field leaves the rate limiter as it is
C29_HoneypotKeepsQuota ==
    [][(ForumPosted /\ reply'.stage = "honeypot") =>
          forumRateLimits' = forumRateLimits]_vars


(***************************************************************************)
(* Properties of the photo files written by the photo route.               *)
(***************************************************************************)
\* the photo request that returns in the step got its photo from
\* fetchPlacePhoto: from the provider, or from the memory photo cache
PhotoFetched ==
    /\ last'.pc = "done" /\ last'.op = "photo"
    /\ last'.status = 200 /\ last'.res = PhotoPayload
\* the answer a request for index n of place p gets in the current state
\* when the read of a local file succeeds
PhotoAnswer(p, n) ==
    placePhotoRoute_Start(StartWorld(1), p, n, TRUE, TRUE)
ServedLocally(s) == s.pc = "done" /\ s.res = FileBytes /\ s.w.calls = {}

\* C30: the only file the route writes after it fetched a photo is the one
\* getLocalPlacePhoto looks up for the place and index of the request, and
\* as long as that file is there, a request for the place and index whose
\* read of the file succeeds is answered from it, without a request to the
\* provider.
C30_PhotoStoredUnderLookupName ==
    /\ [][/\ photoFiles \subseteq photoFiles'
          /\ photoFiles' # photoFiles =>
                /\ PhotoFetched
                /\ photoFiles' = photoFiles \cup
                      {LocalPhotoName(last'.placeId, last'.index)}]_vars
    /\ [](\A p \in PhotoPlaceIds, n \in PhotoIndexes :
             LocalPhotoName(p, n) \in photoFiles => ServedLocally(PhotoAnswer(p, n)))

\* a request has downloaded the photo of index 1 and has written the file
\* that a request for index 1 is answered from
C30_Witness ==
    /\ Returned /\ last.op = "photo" /\ last.status = 200
    /\ last.res = PhotoPayload /\ "photo" \in last.calls
    /\ last.index = 1
    /\ LocalPhotoName(last.placeId, last.index) \in photoFiles
    /\ ServedLocally(PhotoAnswer(last.placeId, last.index))

\* a request is answered from the file that an earlier request wrote
C30_ServedFromFile ==
    /\ Returned /\ last.op = "photo" /\ last.status = 200
    /\ last.res = FileBytes /\ last.calls = {}
    /\ LocalPhotoName(last.placeId, last.index) \in photoFiles

\* a photo request starts in the step
PhotoRequested(p, n) ==
    /\ started' = started + 1
    /\ \/ last'.op = "photo" /\ last'.placeId = p /\ last'.index = n
       \/ \E i \in Slots : /\ procs[i].pc = "idle" /\ procs'[i].op = "photo"
                           /\ procs'[i].placeId = p /\ procs'[i].index = n

\* every request for a place and index whose file is there is answered in
\* the step in which it is made, without a request to the provider
C30_LaterRequestsServedLocally ==
    [][\A p \in PhotoPlaceIds, n \in PhotoIndexes :
          (PhotoRequested(p, n) /\ LocalPhotoName(p, n) \in photoFiles)
          => /\ last'.pc = "done" /\ last'.op = "photo"
             /\ last'.status = 200 /\ last'.calls = {}]_vars

==============================================================================
